---- MODULE Spec2Model ----
(***************************************************************************)
(* Model of the cback storage driver of cernbox/reva-plugins               *)
(* (src/cback/storage/cback.go and its cache-aside wrappers in             *)
(* src/unnamed/part_001).                                                  *)
(*                                                                         *)
(* Go strings are modelled as sequences of one-character strings, so that  *)
(* string prefixes, separators and encodings are computed as the code      *)
(* computes them.                                                          *)
(***************************************************************************)
EXTENDS Integers, Sequences, FiniteSets, TLC

(***************************************************************************)
(* Bounds of the model.                                                    *)
(***************************************************************************)
\* longest field (snapshot id, source, path) drawn for the resource-id codec
MaxFieldLen == 2
\* longest raw payload / opaque string drawn for decodeResourceID
MaxPayloadLen == 4
\* deepest path and longest backup list drawn for the path resolver
MaxDepth == 3
MaxBackups == 2
\* largest cache size and expiration (seconds) configured, last clock value
MaxSize == 2
MaxExpiration == 1
MaxTime == 2

(***************************************************************************)
(* Strings.                                                                *)
(***************************************************************************)
RECURSIVE Concat(_)
\* concatenation of a sequence of strings
Concat(ss) == IF ss = <<>> THEN <<>> ELSE Head(ss) \o Concat(Tail(ss))

\* s[from:to] of Go, 0-based, to exclusive
Slice(s, from, to) == SubSeq(s, from + 1, to)

\* strings.HasPrefix
HasPrefixStr(s, prefix) ==
    /\ Len(prefix) <= Len(s)
    /\ SubSeq(s, 1, Len(prefix)) = prefix

\* 0-based index of the first sep at or after 0-based position from, Len(s) if none
RECURSIVE IndexFrom(_, _, _)
IndexFrom(s, sep, from) ==
    IF from >= Len(s) THEN Len(s)
    ELSE IF s[from + 1] = sep THEN from
    ELSE IndexFrom(s, sep, from + 1)

\* strings.SplitN(s, sep, n) for a one-character sep and n >= 1
RECURSIVE SplitN(_, _, _)
SplitN(s, sep, n) ==
    LET i == IndexFrom(s, sep, 0) IN
    IF n = 1 \/ i = Len(s) THEN <<s>>
    ELSE <<Slice(s, 0, i)>> \o SplitN(Slice(s, i + 1, Len(s)), sep, n - 1)

\* strings.Split(s, sep) for a one-character sep
Split(s, sep) == SplitN(s, sep, Len(s) + 1)

RECURSIVE JoinStr(_, _)
\* strings.Join
JoinStr(ss, sep) ==
    IF ss = <<>> THEN <<>>
    ELSE IF Len(ss) = 1 THEN ss[1]
    ELSE ss[1] \o <<sep>> \o JoinStr(Tail(ss), sep)

\* all strings over alphabet of length at most n
StringsUpTo(alphabet, n) == UNION {[1..k -> alphabet] : k \in 0..n}

(***************************************************************************)
(* strconv: %d and strconv.ParseInt(s, 10, 64).                            *)
(***************************************************************************)
Digits == <<"0", "1", "2", "3", "4", "5", "6", "7", "8", "9">>

DigitSet == {Digits[i] : i \in 1..10}

DigitVal(c) == (CHOOSE i \in 1..10 : Digits[i] = c) - 1

RECURSIVE FormatNat(_)
FormatNat(n) ==
    IF n < 10 THEN <<Digits[n + 1]>>
    ELSE FormatNat(n \div 10) \o <<Digits[(n % 10) + 1]>>

\* fmt.Sprintf("%d", n)
FormatInt(n) == IF n < 0 THEN <<"-">> \o FormatNat(-n) ELSE FormatNat(n)

RECURSIVE ParseNat(_, _)
ParseNat(s, acc) ==
    IF s = <<>> THEN acc ELSE ParseNat(Tail(s), acc * 10 + DigitVal(Head(s)))

\* strconv.ParseInt(s, 10, 64): an optional sign followed by one or more
\* decimal digits (the strings of the model are too short to overflow int64)
ParseInt(s) ==
    LET signed == s # <<>> /\ Head(s) \in {"+", "-"}
        body == IF signed THEN Tail(s) ELSE s
    IN  IF body = <<>> \/ \E i \in 1..Len(body) : body[i] \notin DigitSet
        THEN [ok |-> FALSE, val |-> 0]
        ELSE [ok |-> TRUE,
              val |-> IF signed /\ Head(s) = "-" THEN 0 - ParseNat(body, 0)
                      ELSE ParseNat(body, 0)]

(***************************************************************************)
(* encoding/base64, StdEncoding.                                           *)
(***************************************************************************)
B64Alphabet ==
    <<"A", "B", "C", "D", "E", "F", "G", "H", "I", "J", "K", "L", "M",
      "N", "O", "P", "Q", "R", "S", "T", "U", "V", "W", "X", "Y", "Z",
      "a", "b", "c", "d", "e", "f", "g", "h", "i", "j", "k", "l", "m",
      "n", "o", "p", "q", "r", "s", "t", "u", "v", "w", "x", "y", "z",
      "0", "1", "2", "3", "4", "5", "6", "7", "8", "9", "+", "/">>

B64Set == {B64Alphabet[i] : i \in 1..64}

B64Val(c) == (CHOOSE i \in 1..64 : B64Alphabet[i] = c) - 1

\* printable ASCII, code 32 + (index - 1); the quotes, backslash, parentheses
\* and star are spelled out, no string of the model holds them
Ascii ==
    <<" ", "!", "dquote", "#", "$", "%", "&", "'", "lparen", "rparen", "star", "+", ",",
      "-", ".", "/", "0", "1", "2", "3", "4", "5", "6", "7", "8", "9",
      ":", ";", "<", "=", ">", "?", "@", "A", "B", "C", "D", "E", "F",
      "G", "H", "I", "J", "K", "L", "M", "N", "O", "P", "Q", "R", "S",
      "T", "U", "V", "W", "X", "Y", "Z", "[", "bslash", "]", "^", "_", "bquote",
      "a", "b", "c", "d", "e", "f", "g", "h", "i", "j", "k", "l", "m",
      "n", "o", "p", "q", "r", "s", "t", "u", "v", "w", "x", "y", "z",
      "{", "|", "}", "~">>

Ord(c) == (CHOOSE i \in 1..95 : Ascii[i] = c) + 31

\* the character of a byte; a byte outside printable ASCII is written as its
\* decimal code, which differs from every one-character string
Chr(b) == IF b >= 32 /\ b <= 126 THEN Ascii[b - 31] ELSE ToString(b)

RECURSIVE B64Encode(_)
\* base64.StdEncoding.EncodeToString
B64Encode(s) ==
    IF s = <<>> THEN <<>>
    ELSE IF Len(s) = 1 THEN
        LET b1 == Ord(s[1]) IN
        <<B64Alphabet[(b1 \div 4) + 1], B64Alphabet[((b1 % 4) * 16) + 1], "=", "=">>
    ELSE IF Len(s) = 2 THEN
        LET b1 == Ord(s[1])
            b2 == Ord(s[2]) IN
        <<B64Alphabet[(b1 \div 4) + 1],
          B64Alphabet[((b1 % 4) * 16 + (b2 \div 16)) + 1],
          B64Alphabet[((b2 % 16) * 4) + 1], "=">>
    ELSE
        LET b1 == Ord(s[1])
            b2 == Ord(s[2])
            b3 == Ord(s[3]) IN
        <<B64Alphabet[(b1 \div 4) + 1],
          B64Alphabet[((b1 % 4) * 16 + (b2 \div 16)) + 1],
          B64Alphabet[((b2 % 16) * 4 + (b3 \div 64)) + 1],
          B64Alphabet[(b3 % 64) + 1]>> \o B64Encode(SubSeq(s, 4, Len(s)))

\* the bytes of one quantum of four characters, the last of which may be padded
B64Quantum(q, last) ==
    LET pad == IF q[4] # "=" THEN 0 ELSE IF q[3] # "=" THEN 1 ELSE 2
        wellFormed ==
            /\ q[1] \in B64Set /\ q[2] \in B64Set
            /\ pad = 0 => (q[3] \in B64Set /\ q[4] \in B64Set)
            /\ pad = 1 => q[3] \in B64Set
            /\ pad > 0 => last
        v(i) == B64Val(q[i])
    IN  IF ~wellFormed THEN [ok |-> FALSE, data |-> <<>>]
        ELSE [ok |-> TRUE,
              data |->
                <<Chr(v(1) * 4 + (v(2) \div 16))>>
                \o (IF pad < 2 THEN <<Chr((v(2) % 16) * 16 + (v(3) \div 4))>> ELSE <<>>)
                \o (IF pad < 1 THEN <<Chr((v(3) % 4) * 64 + v(4))>> ELSE <<>>)]

RECURSIVE B64Decode(_)
\* base64.StdEncoding.DecodeString: padded, not strict (non-zero trailing
\* bits are accepted); fails on a length that is no multiple of four, on a
\* character outside the alphabet and on misplaced padding
B64Decode(s) ==
    IF s = <<>> THEN [ok |-> TRUE, data |-> <<>>]
    ELSE IF Len(s) < 4 THEN [ok |-> FALSE, data |-> <<>>]
    ELSE
        LET q == B64Quantum(SubSeq(s, 1, 4), Len(s) = 4)
            rest == B64Decode(SubSeq(s, 5, Len(s)))
        IN  IF q.ok /\ rest.ok THEN [ok |-> TRUE, data |-> q.data \o rest.data]
            ELSE [ok |-> FALSE, data |-> <<>>]

(***************************************************************************)
(* path/filepath (Unix).                                                   *)
(***************************************************************************)
Dot == <<".">>

DotDot == <<".", ".">>

RECURSIVE CleanStack(_, _, _)
\* the elements Clean keeps: empty and "." elements are dropped, ".." removes
\* the element before it, is dropped at the root and is kept otherwise
CleanStack(elems, stack, rooted) ==
    IF elems = <<>> THEN stack
    ELSE
        LET e == Head(elems) IN
        IF e = <<>> \/ e = Dot THEN CleanStack(Tail(elems), stack, rooted)
        ELSE IF e = DotDot THEN
            IF stack # <<>> /\ stack[Len(stack)] # DotDot
            THEN CleanStack(Tail(elems), SubSeq(stack, 1, Len(stack) - 1), rooted)
            ELSE IF rooted THEN CleanStack(Tail(elems), stack, rooted)
            ELSE CleanStack(Tail(elems), Append(stack, e), rooted)
        ELSE CleanStack(Tail(elems), Append(stack, e), rooted)

\* filepath.Clean
Clean(path) ==
    IF path = <<>> THEN Dot
    ELSE
        LET rooted == path[1] = "/"
            kept == CleanStack(Split(path, "/"), <<>>, rooted)
        IN  IF rooted THEN <<"/">> \o JoinStr(kept, "/")
            ELSE IF kept = <<>> THEN Dot
            ELSE JoinStr(kept, "/")

RECURSIVE DropEmptyHead(_)
DropEmptyHead(elems) ==
    IF elems = <<>> THEN <<>>
    ELSE IF Head(elems) # <<>> THEN elems
    ELSE DropEmptyHead(Tail(elems))

\* filepath.Join: the elements from the first non-empty one on, joined and cleaned
Join(elems) ==
    LET rest == DropEmptyHead(elems) IN
    IF rest = <<>> THEN <<>> ELSE Clean(JoinStr(rest, "/"))

RECURSIVE LastIndex(_, _)
\* 0-based index of the last sep of s, -1 if none
LastIndex(s, sep) ==
    IF s = <<>> THEN -1
    ELSE IF s[Len(s)] = sep THEN Len(s) - 1
    ELSE LastIndex(SubSeq(s, 1, Len(s) - 1), sep)

\* filepath.Dir
Dir(path) == Clean(Slice(path, 0, LastIndex(path, "/") + 1))

RECURSIVE StripTrailingSlashes(_)
StripTrailingSlashes(s) ==
    IF s # <<>> /\ s[Len(s)] = "/" THEN StripTrailingSlashes(SubSeq(s, 1, Len(s) - 1))
    ELSE s

\* filepath.Base
Base(path) ==
    IF path = <<>> THEN Dot
    ELSE
        LET p == StripTrailingSlashes(path)
            b == Slice(p, LastIndex(p, "/") + 1, Len(p))
        IN  IF b = <<>> THEN <<"/">> ELSE b

RECURSIVE RelLoop(_, _, _, _)
\* the loop of filepath.Rel that positions base[b0:bi] and targ[t0:ti] at the
\* first differing elements
RelLoop(base, targ, b0, t0) ==
    IF ~(b0 < Len(base) /\ t0 < Len(targ)) THEN [b0 |-> b0, bi |-> b0, t0 |-> t0, ti |-> t0]
    ELSE
        LET bi == IndexFrom(base, "/", b0)
            ti == IndexFrom(targ, "/", t0)
        IN  IF Slice(targ, t0, ti) # Slice(base, b0, bi)
            THEN [b0 |-> b0, bi |-> bi, t0 |-> t0, ti |-> ti]
            ELSE RelLoop(base, targ,
                         IF bi < Len(base) THEN bi + 1 ELSE bi,
                         IF ti < Len(targ) THEN ti + 1 ELSE ti)

\* the number of sep in s
CountSep(s, sep) == Cardinality({i \in 1..Len(s) : s[i] = sep})

RECURSIVE DotDots(_)
\* ".." followed by n times "/.."
DotDots(n) == IF n = 0 THEN DotDot ELSE DotDots(n - 1) \o <<"/">> \o DotDot

\* filepath.Rel(basepath, targpath); err is TRUE where Rel returns an error
\* (and the empty string)
Rel(basepath, targpath) ==
    LET cbase == Clean(basepath)
        targ == Clean(targpath)
        base == IF cbase = Dot THEN <<>> ELSE cbase
        baseSlashed == base # <<>> /\ base[1] = "/"
        targSlashed == targ # <<>> /\ targ[1] = "/"
        pos == RelLoop(base, targ, 0, 0)
        bl == Len(base)
        tl == Len(targ)
    IN  IF targ = cbase THEN [err |-> FALSE, rel |-> Dot]
        ELSE IF baseSlashed # targSlashed THEN [err |-> TRUE, rel |-> <<>>]
        ELSE IF Slice(base, pos.b0, pos.bi) = DotDot THEN [err |-> TRUE, rel |-> <<>>]
        ELSE IF pos.b0 # bl THEN
            [err |-> FALSE,
             rel |-> DotDots(CountSep(Slice(base, pos.b0, bl), "/"))
                     \o (IF pos.t0 # tl THEN <<"/">> \o Slice(targ, pos.t0, tl) ELSE <<>>)]
        ELSE [err |-> FALSE, rel |-> Slice(targ, pos.t0, tl)]

(***************************************************************************)
(* Pointers: a nil pointer is the empty sequence, a pointer to v is <<v>>. *)
(***************************************************************************)
None == <<>>

Some(v) == <<v>>

(***************************************************************************)
(* The resource-id codec.                                                  *)
(***************************************************************************)
\* the storage id every id minted by the driver carries
CbackStorageID == "cback"

\* encodeBackupInResourceID: base64 of "<backupID>#<snapshotID>#<source>#<path>"
encodeBackupInResourceID(backupID, snapshotID, source, path) ==
    [StorageId |-> CbackStorageID,
     OpaqueId |-> B64Encode(FormatInt(backupID) \o <<"#">> \o snapshotID \o <<"#">>
                            \o source \o <<"#">> \o path)]

\* what decodeResourceID returns where it returns ok = false
DecodeFailed ==
    [source |-> <<>>, snapshot |-> <<>>, path |-> <<>>, id |-> 0, ok |-> FALSE,
     panic |-> FALSE]

\* a run-time panic (index out of range)
DecodePanic ==
    [source |-> <<>>, snapshot |-> <<>>, path |-> <<>>, id |-> 0, ok |-> FALSE,
     panic |-> TRUE]

\* decodeResourceID without the check of the number of fields
decodeResourceID_NoLenCheck(r) ==
    IF r = None THEN DecodeFailed
    ELSE
        LET data == B64Decode(r[1].OpaqueId)
            split == SplitN(data.data, "#", 4)
            backupID == ParseInt(split[1])
        IN  IF ~data.ok THEN DecodeFailed
            ELSE IF ~backupID.ok THEN DecodeFailed
            ELSE IF Len(split) < 4 THEN DecodePanic
            ELSE [source |-> split[3], snapshot |-> split[2], path |-> split[4],
                  id |-> backupID.val, ok |-> TRUE, panic |-> FALSE]

\* decodeResourceID returning the fields in the order they are encoded in
decodeResourceID_Swapped(r) ==
    IF r = None THEN DecodeFailed
    ELSE
        LET data == B64Decode(r[1].OpaqueId)
            split == SplitN(data.data, "#", 4)
            backupID == ParseInt(split[1])
        IN  IF ~data.ok THEN DecodeFailed
            ELSE IF Len(split) # 4 THEN DecodeFailed
            ELSE IF ~backupID.ok THEN DecodeFailed
            ELSE [source |-> split[2], snapshot |-> split[3], path |-> split[4],
                  id |-> backupID.val, ok |-> TRUE, panic |-> FALSE]

\* decodeResourceID: (source, snapshot, path, backup id, ok)
decodeResourceID(r) ==
    IF r = None THEN DecodeFailed
    ELSE
        LET data == B64Decode(r[1].OpaqueId)
            split == SplitN(data.data, "#", 4)
            backupID == ParseInt(split[1])
        IN  IF ~data.ok THEN DecodeFailed
            ELSE IF Len(split) # 4 THEN DecodeFailed
            ELSE IF ~backupID.ok THEN DecodeFailed
            ELSE [source |-> split[3], snapshot |-> split[2], path |-> split[4],
                  id |-> backupID.val, ok |-> TRUE, panic |-> FALSE]

(***************************************************************************)
(* The path resolver.                                                      *)
(***************************************************************************)
\* what split returns when no backup matches
SplitNotFound ==
    [source |-> <<>>, snapshot |-> <<>>, path |-> <<>>, id |-> 0, ok |-> FALSE]

\* the prefix branch of split taking the whole relative path as the snapshot
SplitIn_WholeRel(path, b) ==
    LET rel == Rel(b.Source, path).rel
    IN  IF rel = Dot
        THEN [source |-> b.Source, snapshot |-> <<>>, path |-> <<>>, id |-> b.ID, ok |-> TRUE]
        ELSE [source |-> b.Source, snapshot |-> rel, path |-> <<>>, id |-> b.ID, ok |-> TRUE]

\* what split returns for a path inside the backup b
SplitIn(path, b) ==
    LET rel == Rel(b.Source, path).rel
        parts == SplitN(rel, "/", 2)
    IN  IF rel = Dot
        THEN [source |-> b.Source, snapshot |-> <<>>, path |-> <<>>, id |-> b.ID, ok |-> TRUE]
        ELSE [source |-> b.Source, snapshot |-> parts[1],
              path |-> IF Len(parts) = 2 THEN parts[2] ELSE <<>>,
              id |-> b.ID, ok |-> TRUE]

RECURSIVE split_LastMatch(_, _)
\* split taking the last backup of the list that matches
split_LastMatch(path, backups) ==
    IF backups = <<>> THEN SplitNotFound
    ELSE
        LET b == backups[Len(backups)] IN
        IF HasPrefixStr(path, b.Source) THEN SplitIn(path, b)
        ELSE split_LastMatch(path, SubSeq(backups, 1, Len(backups) - 1))

RECURSIVE split(_, _)
\* split: the first backup, in list order, whose source is a prefix of the path
split(path, backups) ==
    IF backups = <<>> THEN SplitNotFound
    ELSE
        LET b == Head(backups) IN
        IF HasPrefixStr(path, b.Source) THEN SplitIn(path, b)
        ELSE split(path, Tail(backups))

RECURSIVE hasPrefixFrom(_, _, _)
hasPrefixFrom(lst, prefix, i) ==
    IF i > Len(prefix) THEN "true"
    ELSE IF i > Len(lst) THEN "panic"
    ELSE IF lst[i] # prefix[i] THEN "false"
    ELSE hasPrefixFrom(lst, prefix, i + 1)

\* hasPrefix: "true", "false", or "panic" where lst[i] is read past the end of lst
hasPrefix(lst, prefix) == hasPrefixFrom(lst, prefix, 1)

\* the segments isParentOfBackup and ListFolder compare
PathSplit(path) == IF path # <<"/">> THEN Split(path, "/") ELSE << <<>> >>

RECURSIVE isParentOfBackupFrom(_, _)
isParentOfBackupFrom(pathSplit, backups) ==
    IF backups = <<>> THEN "false"
    ELSE
        LET h == hasPrefix(Split(Head(backups).Source, "/"), pathSplit) IN
        IF h = "false" THEN isParentOfBackupFrom(pathSplit, Tail(backups)) ELSE h

\* fs.isParentOfBackup: "true", "false" or "panic"
isParentOfBackup(path, backups) == isParentOfBackupFrom(PathSplit(path), backups)

(***************************************************************************)
(* Configuration: the templates, the timestamp format, the cache size and  *)
(* the expiration of the cache entries.                                    *)
(***************************************************************************)
\* the template "{{.}}"
TplIdentity == [kind |-> "identity", arg |-> <<>>]

\* the template "/e{{.}}"
TplPrepend == [kind |-> "prepend", arg |-> <<"/", "e">>]

\* the template "{{ trimPrefix "/e" . }}"
TplTrimPrefix == [kind |-> "trimPrefix", arg |-> <<"/", "e">>]

\* convertTemplate: the template executed on s
convertTemplate(s, t) ==
    IF t.kind = "prepend" THEN t.arg \o s
    ELSE IF t.kind = "trimPrefix" THEN
        IF HasPrefixStr(s, t.arg) THEN Slice(s, Len(t.arg), Len(s)) ELSE s
    ELSE s

\* a timestamp format keeps the time down to a granularity: the seconds, or
\* the tens of seconds
Granularities == {1, 10}

\* Time.Format(f.conf.TimestampFormat) for a format of granularity g
FormatTime(t, g) == FormatNat(t \div g)

\* time.Parse(f.conf.TimestampFormat, s)
ParseTime(s, g) ==
    IF s = <<>> \/ \E i \in 1..Len(s) : s[i] \notin DigitSet
    THEN [ok |-> FALSE, val |-> 0]
    ELSE [ok |-> TRUE, val |-> ParseNat(s, 0) * g]

(***************************************************************************)
(* The cache: gcache.New(c.Size).LRU().Build().  A sequence of items, the  *)
(* most recently used first.                                               *)
(***************************************************************************)
\* the position of key in the cache, 0 if absent
RECURSIVE CachePos(_, _, _)
CachePos(c, key, i) ==
    IF i > Len(c) THEN 0
    ELSE IF c[i].key = key THEN i
    ELSE CachePos(c, key, i + 1)

CacheRemoveAt(c, i) == SubSeq(c, 1, i - 1) \o SubSeq(c, i + 1, Len(c))

CacheKeys(c) == {c[i].key : i \in 1..Len(c)}

\* lruItem.IsExpired
IsExpired(item, t) == item.expiration < t

\* Get that leaves the item where it is in the eviction list
CacheGet_NoMoveToFront(c, key, t) ==
    LET i == CachePos(c, key, 1) IN
    IF i = 0 THEN [cache |-> c, hit |-> FALSE, value |-> <<>>]
    ELSE IF IsExpired(c[i], t) THEN [cache |-> CacheRemoveAt(c, i), hit |-> FALSE, value |-> <<>>]
    ELSE [cache |-> c, hit |-> TRUE, value |-> c[i].value]

\* Get that does not look at the expiration
CacheGet_NoExpiry(c, key, t) ==
    LET i == CachePos(c, key, 1) IN
    IF i = 0 THEN [cache |-> c, hit |-> FALSE, value |-> <<>>]
    ELSE [cache |-> <<c[i]>> \o CacheRemoveAt(c, i), hit |-> TRUE, value |-> c[i].value]

\* cache.Get at time t: an item that has not expired is moved to the front
\* and returned, an expired item is removed, and there is no loader
CacheGet(c, key, t) ==
    LET i == CachePos(c, key, 1) IN
    IF i = 0 THEN [cache |-> c, hit |-> FALSE, value |-> <<>>]
    ELSE IF IsExpired(c[i], t) THEN [cache |-> CacheRemoveAt(c, i), hit |-> FALSE, value |-> <<>>]
    ELSE [cache |-> <<c[i]>> \o CacheRemoveAt(c, i), hit |-> TRUE, value |-> c[i].value]

\* cache.SetWithExpire at time t: an item of the key is replaced and moved to
\* the front; otherwise the item at the back is evicted when the cache is full
\* and the new item is pushed to the front
CacheSetWithExpire(c, key, value, t, expiration, size) ==
    LET i == CachePos(c, key, 1)
        item == [key |-> key, value |-> value, expiration |-> t + expiration]
    IN  IF i # 0 THEN <<item>> \o CacheRemoveAt(c, i)
        ELSE IF Len(c) >= size THEN <<item>> \o SubSeq(c, 1, Len(c) - 1)
        ELSE <<item>> \o c

(***************************************************************************)
(* The remote catalog (utils.Client).  The catalog is a service outside    *)
(* the driver: each request sees one of its versions and the service may   *)
(* be unreachable (up = FALSE).                                            *)
(***************************************************************************)
Al == <<"a", "l">>

Bo == <<"b", "o">>

Users == {Al, Bo}

SrcAB == <<"/", "a", "/", "b">>

SrcABC == <<"/", "a", "/", "b", "/", "c">>

SrcH == <<"/", "h">>

\* the files of every snapshot, relative to the source of the backup
CatalogTree(ctime) ==
    << [rel |-> <<"d">>, Type |-> "dir", CTime |-> 5, Size |-> 0],
       [rel |-> <<"d", "/", "f">>, Type |-> "file", CTime |-> ctime, Size |-> 3] >>

CatalogV1 ==
    [backups |-> [u \in Users |->
                    IF u = Al THEN << [ID |-> 1, Source |-> SrcAB], [ID |-> 2, Source |-> SrcABC] >>
                    ELSE <<>>],
     snapshots |-> [id \in {1, 2, 3} |->
                    IF id = 1 THEN << [ID |-> "s1", Time |-> 10], [ID |-> "s2", Time |-> 25] >>
                    ELSE IF id = 2 THEN << [ID |-> "s3", Time |-> 10] >>
                    ELSE <<>>],
     tree |-> CatalogTree(7)]

CatalogV2 ==
    [backups |-> [u \in Users |->
                    IF u = Al THEN << [ID |-> 2, Source |-> SrcABC], [ID |-> 1, Source |-> SrcAB] >>
                    ELSE << [ID |-> 3, Source |-> SrcH] >>],
     snapshots |-> [id \in {1, 2, 3} |->
                    IF id = 1 THEN << [ID |-> "s1", Time |-> 10], [ID |-> "s2", Time |-> 25],
                                      [ID |-> "s4", Time |-> 27] >>
                    ELSE IF id = 2 THEN << [ID |-> "s3", Time |-> 10] >>
                    ELSE << [ID |-> "s5", Time |-> 31] >>],
     tree |-> CatalogTree(8)]

Catalogs == {CatalogV1, CatalogV2}

\* the catalog of a site whose sources all lie under /e
CatalogV3 ==
    [CatalogV2 EXCEPT
        !.backups = [u \in Users |->
                        [i \in 1..Len(CatalogV2.backups[u]) |->
                            [CatalogV2.backups[u][i] EXCEPT !.Source = <<"/", "e">> \o @]]]]

\* what a request may meet: a version of the catalog, or the service down
RemoteStates ==
    {[cat |-> c, up |-> TRUE] : c \in Catalogs} \cup {[cat |-> CatalogV1, up |-> FALSE]}

RemoteFailed == [ok |-> FALSE, val |-> <<>>]

\* the backups of the catalog that belong to username
RemoteBackupsOf(cat, username) ==
    IF username \in DOMAIN cat.backups THEN cat.backups[username] ELSE <<>>

\* the backup id of username in the catalog, as a sequence of at most one backup
RemoteBackup(cat, username, id) ==
    SelectSeq(RemoteBackupsOf(cat, username), LAMBDA b : b.ID = id)

\* a snapshot name the catalog can look up
RemoteKnowsSnapshot(snapshot) ==
    snapshot # <<>> /\ \A i \in 1..Len(snapshot) : snapshot[i] \in DigitSet

\* the resource of the catalog for an entry of the tree of backup b
RemoteResource(b, e) ==
    [Name |-> Join(<<b.Source, e.rel>>), Type |-> e.Type, CTime |-> e.CTime, Size |-> e.Size]

\* the resources of backup b
RemoteResources(cat, b) ==
    [i \in 1..Len(cat.tree) |-> RemoteResource(b, cat.tree[i])]

\* Client.ListBackups
RemoteListBackups(cat, up, username) ==
    IF ~up THEN RemoteFailed ELSE [ok |-> TRUE, val |-> RemoteBackupsOf(cat, username)]

\* Client.ListSnapshots
RemoteListSnapshots(cat, up, username, id) ==
    IF ~up \/ RemoteBackup(cat, username, id) = <<>> THEN RemoteFailed
    ELSE [ok |-> TRUE, val |-> cat.snapshots[id]]

\* Client.Stat
RemoteStat(cat, up, username, id, snapshot, path) ==
    LET b == RemoteBackup(cat, username, id) IN
    IF ~up \/ b = <<>> \/ ~RemoteKnowsSnapshot(snapshot) THEN RemoteFailed
    ELSE
        LET found == SelectSeq(RemoteResources(cat, b[1]), LAMBDA r : r.Name = path) IN
        IF found = <<>> THEN RemoteFailed ELSE [ok |-> TRUE, val |-> <<found[1]>>]

\* Client.ListFolder
RemoteListFolder(cat, up, username, id, snapshot, path) ==
    LET b == RemoteBackup(cat, username, id) IN
    IF ~up \/ b = <<>> \/ ~RemoteKnowsSnapshot(snapshot) THEN RemoteFailed
    ELSE
        LET all == RemoteResources(cat, b[1])
            isDir == path = b[1].Source
                     \/ \E i \in 1..Len(all) : all[i].Name = path /\ all[i].Type = "dir"
        IN  IF ~isDir THEN RemoteFailed
            ELSE [ok |-> TRUE, val |-> SelectSeq(all, LAMBDA r : Dir(r.Name) = path)]

\* Client.Download: the stream of a file of a snapshot
RemoteDownload(cat, up, username, id, snapshot, path) ==
    LET b == RemoteBackup(cat, username, id) IN
    IF ~up \/ b = <<>> \/ ~RemoteKnowsSnapshot(snapshot) THEN RemoteFailed
    ELSE IF \A i \in 1..Len(cat.tree) :
                ~(RemoteResource(b[1], cat.tree[i]).Name = path /\ cat.tree[i].Type = "file")
        THEN RemoteFailed
    ELSE [ok |-> TRUE, val |-> [file |-> path, version |-> cat.tree[2].CTime]]

\* a request sent to the catalog
RemoteCall(fn, username, id, snapshot, path) ==
    [fn |-> fn, username |-> username, id |-> id, snapshot |-> snapshot, path |-> path]

(***************************************************************************)
(* The cache-aside wrappers.  st is the cache and the requests sent to the *)
(* catalog so far; env is the time, the configuration and the catalog the  *)
(* call meets.  The result is the new st with what the wrapper returns.    *)
(***************************************************************************)
KeyBackups == <<"b", "a", "c", "k", "u", "p", "s", ":">>

KeyStat == <<"s", "t", "a", "t", ":">>

KeyList == <<"l", "i", "s", "t", ":">>

KeySnapshots == <<"s", "n", "a", "p", "s", "h", "o", "t", "s", ":">>

\* fmt.Sprintf("stat:%s:%d:%s:%s", ...) and "list:%s:%d:%s:%s"
KeyOf4(prefix, username, id, snapshot, path) ==
    prefix \o username \o <<":">> \o FormatInt(id) \o <<":">> \o snapshot \o <<":">> \o path

\* fmt.Sprintf("snapshots:%s:%d", username, id)
KeyOf2(prefix, username, id) == prefix \o username \o <<":">> \o FormatInt(id)

WrapReturn(cache, calls, ok, val) == [cache |-> cache, calls |-> calls, ok |-> ok, val |-> val]

\* the backups with the storage template applied to each source
ConvertSources(backups, tpl) ==
    [i \in 1..Len(backups) |-> [backups[i] EXCEPT !.Source = convertTemplate(@, tpl)]]

\* the snapshots with each time truncated according to the timestamp format
TruncateTimes(snapshots, g) ==
    [i \in 1..Len(snapshots) |->
        [snapshots[i] EXCEPT !.Time = ParseTime(FormatTime(@, g), g).val]]

\* listBackups storing the backups as the catalog sent them
listBackups_CacheRaw(st, env, username) ==
    LET key == KeyBackups \o username
        got == CacheGet(st.cache, key, env.now)
        r == RemoteListBackups(env.cat, env.up, username)
        calls == Append(st.calls, RemoteCall("ListBackups", username, 0, <<>>, <<>>))
        backups == ConvertSources(r.val, env.conf.tplStorage)
    IN  IF got.hit THEN WrapReturn(got.cache, st.calls, TRUE, got.value)
        ELSE IF ~r.ok THEN WrapReturn(got.cache, calls, FALSE, <<>>)
        ELSE WrapReturn(CacheSetWithExpire(got.cache, key, r.val, env.now,
                                           env.conf.Expiration, env.conf.Size),
                        calls, TRUE, backups)

\* fs.listBackups
listBackups(st, env, username) ==
    LET key == KeyBackups \o username
        got == CacheGet(st.cache, key, env.now)
        r == RemoteListBackups(env.cat, env.up, username)
        calls == Append(st.calls, RemoteCall("ListBackups", username, 0, <<>>, <<>>))
        backups == ConvertSources(r.val, env.conf.tplStorage)
    IN  IF got.hit THEN WrapReturn(got.cache, st.calls, TRUE, got.value)
        ELSE IF ~r.ok THEN WrapReturn(got.cache, calls, FALSE, <<>>)
        ELSE WrapReturn(CacheSetWithExpire(got.cache, key, backups, env.now,
                                           env.conf.Expiration, env.conf.Size),
                        calls, TRUE, backups)

\* fs.stat
stat(st, env, username, id, snapshot, path) ==
    LET key == KeyOf4(KeyStat, username, id, snapshot, path)
        got == CacheGet(st.cache, key, env.now)
        r == RemoteStat(env.cat, env.up, username, id, snapshot, path)
        calls == Append(st.calls, RemoteCall("Stat", username, id, snapshot, path))
    IN  IF got.hit THEN WrapReturn(got.cache, st.calls, TRUE, got.value)
        ELSE IF ~r.ok THEN WrapReturn(got.cache, calls, FALSE, <<>>)
        ELSE WrapReturn(CacheSetWithExpire(got.cache, key, r.val, env.now,
                                           env.conf.Expiration, env.conf.Size),
                        calls, TRUE, r.val)

\* listFolder storing an empty listing when the catalog fails
listFolder_CacheFailure(st, env, username, id, snapshot, path) ==
    LET key == KeyOf4(KeyList, username, id, snapshot, path)
        got == CacheGet(st.cache, key, env.now)
        cpath == convertTemplate(path, env.conf.tplCback)
        r == RemoteListFolder(env.cat, env.up, username, id, snapshot, cpath)
        calls == Append(st.calls, RemoteCall("ListFolder", username, id, snapshot, cpath))
    IN  IF got.hit THEN WrapReturn(got.cache, st.calls, TRUE, got.value)
        ELSE WrapReturn(CacheSetWithExpire(got.cache, key, r.val, env.now,
                                           env.conf.Expiration, env.conf.Size),
                        calls, r.ok, r.val)

\* fs.listFolder
listFolder(st, env, username, id, snapshot, path) ==
    LET key == KeyOf4(KeyList, username, id, snapshot, path)
        got == CacheGet(st.cache, key, env.now)
        cpath == convertTemplate(path, env.conf.tplCback)
        r == RemoteListFolder(env.cat, env.up, username, id, snapshot, cpath)
        calls == Append(st.calls, RemoteCall("ListFolder", username, id, snapshot, cpath))
    IN  IF got.hit THEN WrapReturn(got.cache, st.calls, TRUE, got.value)
        ELSE IF ~r.ok THEN WrapReturn(got.cache, calls, FALSE, <<>>)
        ELSE WrapReturn(CacheSetWithExpire(got.cache, key, r.val, env.now,
                                           env.conf.Expiration, env.conf.Size),
                        calls, TRUE, r.val)

\* listSnapshots keeping the times as the catalog sent them
listSnapshots_NoTruncate(st, env, username, id) ==
    LET key == KeyOf2(KeySnapshots, username, id)
        got == CacheGet(st.cache, key, env.now)
        r == RemoteListSnapshots(env.cat, env.up, username, id)
        calls == Append(st.calls, RemoteCall("ListSnapshots", username, id, <<>>, <<>>))
    IN  IF got.hit THEN WrapReturn(got.cache, st.calls, TRUE, got.value)
        ELSE IF ~r.ok THEN WrapReturn(got.cache, calls, FALSE, <<>>)
        ELSE WrapReturn(CacheSetWithExpire(got.cache, key, r.val, env.now,
                                           env.conf.Expiration, env.conf.Size),
                        calls, TRUE, r.val)

\* fs.listSnapshots
listSnapshots(st, env, username, id) ==
    LET key == KeyOf2(KeySnapshots, username, id)
        got == CacheGet(st.cache, key, env.now)
        r == RemoteListSnapshots(env.cat, env.up, username, id)
        calls == Append(st.calls, RemoteCall("ListSnapshots", username, id, <<>>, <<>>))
        l == TruncateTimes(r.val, env.conf.g)
    IN  IF got.hit THEN WrapReturn(got.cache, st.calls, TRUE, got.value)
        ELSE IF ~r.ok THEN WrapReturn(got.cache, calls, FALSE, <<>>)
        ELSE WrapReturn(CacheSetWithExpire(got.cache, key, l, env.now,
                                           env.conf.Expiration, env.conf.Size),
                        calls, TRUE, l)

(***************************************************************************)
(* State.                                                                  *)
(***************************************************************************)
VARIABLES
    codec,      \* an input of the resource-id codec and what the codec made of it
    resolver,   \* an input of the path resolver and what the resolver made of it
    conf,       \* the configuration the driver was built with (New)
    cache,      \* fs.cache
    now,        \* the clock
    last,       \* the last call: its arguments, what it returned, what it sent to the catalog
    watch,      \* history: the wrapper call that is followed
    hist,       \* history of the followed call
    catalog,    \* the version of the remote catalog the driver talks to
    race,       \* two concurrent calls of a wrapper: where each is, what it holds
    keyer,      \* two wrapper calls and the cache keys computed for them
    migration,  \* migrateShares: the producer, the workers, the channel and the WaitGroup
    links,      \* the public links stored and the last call of the public share manager
    wrapper,    \* the eoswrapper instance and the last call made through it
    shares      \* the shares stored and the last call of the share manager

vars == <<codec, resolver, conf, cache, now, last, watch, hist, catalog, race, keyer,
          migration, links, wrapper, shares>>

\* the state of the other packages
pkgVars == <<migration, links, wrapper, shares>>

\* nothing runs in the other packages
PkgIdle == [stage |-> "idle"]

PackagesIdle ==
    /\ migration = PkgIdle
    /\ links = PkgIdle
    /\ wrapper = PkgIdle
    /\ shares = PkgIdle

driverVars == <<conf, cache, now, last, watch, hist, catalog, race, keyer, pkgVars>>

(***************************************************************************)
(* The codec on its own: SpecCodec draws a tuple to encode or a resource   *)
(* id to decode, encodes and decodes.                                      *)
(***************************************************************************)
CodecIDs == {-3, 0, 7, 12}

\* snapshot ids and sources hold no '#'; paths may
CodecPlain == StringsUpTo({"/", "a"}, MaxFieldLen)

CodecPaths == StringsUpTo({"/", "a", "#"}, MaxFieldLen)

\* payloads that are encoded as the driver encodes them, and opaque ids as
\* another driver or a client may send them
CodecPayloads == StringsUpTo({"#", "1", "-", "a"}, MaxPayloadLen)

CodecRawOpaques == StringsUpTo({"M", "Q", "=", "!"}, MaxPayloadLen)

CodecStorageIDs == {CbackStorageID, "other"}

CodecNoTuple == [backupID |-> 0, snapshotID |-> <<>>, source |-> <<>>, path |-> <<>>]

CodecIdle ==
    [stage |-> "idle", encoded |-> FALSE, in |-> CodecNoTuple, rid |-> None, out |-> DecodeFailed]

CodecTuples ==
    {[backupID |-> i, snapshotID |-> sn, source |-> so, path |-> p] :
        i \in CodecIDs, sn \in CodecPlain, so \in CodecPlain, p \in CodecPaths}

CodecRids ==
    {None} \cup
    {Some([StorageId |-> sid, OpaqueId |-> o]) :
        sid \in CodecStorageIDs,
        o \in CodecRawOpaques \cup {B64Encode(pl) : pl \in CodecPayloads}}

CodecInit ==
    \/ \E t \in CodecTuples : codec = [CodecIdle EXCEPT !.stage = "tuple", !.in = t]
    \/ \E r \in CodecRids : codec = [CodecIdle EXCEPT !.stage = "rid", !.rid = r]

CodecEncode ==
    /\ codec.stage = "tuple"
    /\ codec' = [codec EXCEPT
                    !.stage = "rid",
                    !.encoded = TRUE,
                    !.rid = Some(encodeBackupInResourceID(codec.in.backupID, codec.in.snapshotID,
                                                          codec.in.source, codec.in.path))]
    /\ UNCHANGED <<resolver, driverVars>>

CodecDecode ==
    /\ codec.stage = "rid"
    /\ codec' = [codec EXCEPT !.stage = "done", !.out = decodeResourceID(codec.rid)]
    /\ UNCHANGED <<resolver, driverVars>>

(***************************************************************************)
(* The resolver on its own: SpecSplit draws a path and a list of backups   *)
(* and applies split and isParentOfBackup.                                 *)
(***************************************************************************)
ResolverSegments == {<<"a">>, <<"b">>, <<"b", "c">>, <<"c">>, DotDot}

\* the path of the example: /a/b/c/snap1/x
ExamplePath == SrcABC \o <<"/", "s", "n", "a", "p", "1", "/", "x">>

ResolverPaths ==
    {<<>>, ExamplePath} \cup
    {<<"/">> \o JoinStr(segs, "/") :
        segs \in UNION {[1..k -> ResolverSegments] : k \in 0..MaxDepth}}

ResolverBackups ==
    {[ID |-> 1, Source |-> SrcAB], [ID |-> 2, Source |-> SrcABC],
     [ID |-> 3, Source |-> SrcH], [ID |-> 4, Source |-> <<"/", "a">>],
     [ID |-> 5, Source |-> <<"/", "a", "/", "b", "c", "/", "c">>]}

\* the lists of at most MaxBackups different backups
ResolverLists ==
    {l \in UNION {[1..k -> ResolverBackups] : k \in 0..MaxBackups} :
        \A i, j \in 1..Len(l) : i # j => l[i] # l[j]}

ResolverIdle ==
    [stage |-> "idle", path |-> <<>>, backups |-> <<>>, out |-> SplitNotFound, parent |-> "false",
     listed |-> [err |-> "", paths |-> <<>>]]

ResolverInit ==
    \E p \in ResolverPaths, l \in ResolverLists :
        resolver = [ResolverIdle EXCEPT !.stage = "in", !.path = p, !.backups = l]

ResolveSplit ==
    /\ resolver.stage = "in"
    /\ resolver' = [resolver EXCEPT !.stage = "split",
                                    !.out = split(resolver.path, resolver.backups)]
    /\ UNCHANGED <<codec, driverVars>>

ResolveParent ==
    /\ resolver.stage = "split"
    /\ resolver' = [resolver EXCEPT !.stage = "done",
                                    !.parent = isParentOfBackup(resolver.path, resolver.backups)]
    /\ UNCHANGED <<codec, driverVars>>

(***************************************************************************)
(* The driver.                                                             *)
(***************************************************************************)
\* the templates and the timestamp format of a deployment
Deployments ==
    { [tplStorage |-> TplIdentity, tplCback |-> TplIdentity, g |-> 1],
      [tplStorage |-> TplPrepend, tplCback |-> TplTrimPrefix, g |-> 10] }

Confs ==
    {[Size |-> n, Expiration |-> e, tplStorage |-> d.tplStorage, tplCback |-> d.tplCback,
      g |-> d.g] : n \in 1..MaxSize, e \in 1..MaxExpiration, d \in Deployments}

NoArgs == [username |-> <<>>, id |-> 0, snapshot |-> <<>>, path |-> <<>>]

\* no call yet
LastIdle ==
    [op |-> "none", user |-> None, ref |-> None, args |-> NoArgs, err |-> "",
     infos |-> <<>>, val |-> <<>>, calls |-> <<>>, backups |-> <<>>]

HistInit == [written |-> -1, lapsed |-> FALSE, since |-> {}]

\* no concurrent calls
RaceIdle == [stage |-> "idle", kind |-> "none", heap |-> <<>>, proc |-> <<>>, wrote |-> <<>>]

\* no keys computed
KeyerIdle ==
    [stage |-> "idle", a |-> [op |-> "none", args |-> NoArgs], b |-> [op |-> "none", args |-> NoArgs],
     ka |-> <<>>, kb |-> <<>>, got |-> [hit |-> FALSE, value |-> <<>>]]

\* no call of the cback driver yet
CbackIdle ==
    /\ conf = [Size |-> 1, Expiration |-> 1, tplStorage |-> TplIdentity,
               tplCback |-> TplIdentity, g |-> 1]
    /\ cache = <<>>
    /\ now = 0
    /\ last = LastIdle
    /\ watch = [op |-> "none", args |-> NoArgs]
    /\ hist = HistInit
    /\ catalog = CatalogV1
    /\ race = RaceIdle
    /\ keyer = KeyerIdle

DriverIdle == CbackIdle /\ PackagesIdle

\* the state of the cback driver, which the other packages leave alone
cbackVars == <<codec, resolver, conf, cache, now, last, watch, hist, catalog, race, keyer>>

Env(cat, up) == [now |-> now, conf |-> conf, cat |-> cat, up |-> up]

\* time passes
Tick ==
    /\ now < MaxTime
    /\ now' = now + 1
    /\ UNCHANGED <<codec, resolver, conf, cache, last, watch, hist, catalog, race, keyer, pkgVars>>

(***************************************************************************)
(* The wrappers on their own: SpecCache calls listBackups, stat,           *)
(* listFolder and listSnapshots in any order while time passes.  One of    *)
(* the calls (watch) is followed: last is the last call of it, and the     *)
(* history variable hist holds when its value was last fetched from the    *)
(* catalog and the keys of the other calls that succeeded since it last    *)
(* succeeded.                                                              *)
(***************************************************************************)
PathD == SrcAB \o <<"/", "d">>

PathDF == SrcAB \o <<"/", "d", "/", "f">>

WrapperCalls ==
    { [op |-> "listBackups", args |-> [NoArgs EXCEPT !.username = Al]],
      [op |-> "listSnapshots", args |-> [NoArgs EXCEPT !.username = Al, !.id = 1]],
      [op |-> "stat", args |-> [username |-> Al, id |-> 1, snapshot |-> <<"1">>, path |-> PathDF]],
      [op |-> "listFolder", args |-> [username |-> Al, id |-> 1, snapshot |-> <<"1">>, path |-> PathD]] }

\* the cache key of a wrapper call
WrapperKey(c) ==
    IF c.op = "listBackups" THEN KeyBackups \o c.args.username
    ELSE IF c.op = "listSnapshots" THEN KeyOf2(KeySnapshots, c.args.username, c.args.id)
    ELSE IF c.op = "stat"
        THEN KeyOf4(KeyStat, c.args.username, c.args.id, c.args.snapshot, c.args.path)
    ELSE KeyOf4(KeyList, c.args.username, c.args.id, c.args.snapshot, c.args.path)

\* the wrapper call c made on the cache at the current time
WrapperApply(c, env) ==
    LET st == [cache |-> cache, calls |-> <<>>]
        a == c.args
    IN  IF c.op = "listBackups" THEN listBackups(st, env, a.username)
        ELSE IF c.op = "listSnapshots" THEN listSnapshots(st, env, a.username, a.id)
        ELSE IF c.op = "stat" THEN stat(st, env, a.username, a.id, a.snapshot, a.path)
        ELSE listFolder(st, env, a.username, a.id, a.snapshot, a.path)

\* the value fetched for the followed call has expired
Lapsed == hist.written >= 0 /\ now > hist.written + conf.Expiration

\* the history after the call c returned r
HistAfter(c, r) ==
    IF c = watch THEN
        IF r.ok THEN [written |-> IF r.calls # <<>> THEN now ELSE hist.written,
                      lapsed |-> Lapsed,
                      since |-> {}]
        ELSE [hist EXCEPT !.lapsed = Lapsed]
    ELSE IF r.ok THEN [hist EXCEPT !.since = @ \cup {WrapperKey(c)}]
    ELSE hist

\* what last holds after the followed call returned r
LastOfWrapper(c, r) ==
    [LastIdle EXCEPT !.op = c.op, !.args = c.args,
                     !.err = IF r.ok THEN "" ELSE "RemoteError",
                     !.val = r.val, !.calls = r.calls]

\* the call c when the catalog is as remote says
CallWrapperAt(c, remote) ==
    LET r == WrapperApply(c, Env(remote.cat, remote.up)) IN
    /\ cache' = r.cache
    /\ last' = IF c = watch THEN LastOfWrapper(c, r) ELSE last
    /\ hist' = HistAfter(c, r)
    /\ UNCHANGED <<codec, resolver, conf, now, watch, catalog, race, keyer, pkgVars>>

CallWrapper(c) == \E remote \in RemoteStates : CallWrapperAt(c, remote)

CallListBackups == \E c \in WrapperCalls : c.op = "listBackups" /\ CallWrapper(c)

CallStat == \E c \in WrapperCalls : c.op = "stat" /\ CallWrapper(c)

CallListFolder == \E c \in WrapperCalls : c.op = "listFolder" /\ CallWrapper(c)

CallListSnapshots == \E c \in WrapperCalls : c.op = "listSnapshots" /\ CallWrapper(c)

\* the wrappers are followed in the deployment that remaps the sources
CacheConfs == {c \in Confs : c.tplStorage = TplPrepend}

CacheInit ==
    /\ codec = CodecIdle
    /\ resolver = ResolverIdle
    /\ conf \in CacheConfs
    /\ cache = <<>>
    /\ now = 0
    /\ last = LastIdle
    /\ watch \in WrapperCalls
    /\ hist = HistInit
    /\ catalog = CatalogV1
    /\ race = RaceIdle
    /\ PackagesIdle
    /\ keyer = KeyerIdle

CacheNext == CallListBackups \/ CallStat \/ CallListFolder \/ CallListSnapshots \/ Tick

SpecCache == CacheInit /\ [][CacheNext]_vars

(***************************************************************************)
(* The storage driver: GetMD and the operations the driver does not        *)
(* support.  st is the cache and the requests sent to the catalog so far.  *)
(***************************************************************************)
\* mime.Detect
MimeDetect(isDir) == IF isDir THEN "httpd/unix-directory" ELSE "application/octet-stream"

\* fs.convertToResourceInfo
convertToResourceInfo(r, path, resID, parentID, owner) ==
    [Type |-> IF r.Type = "dir" THEN "CONTAINER" ELSE "FILE",
     Id |-> resID,
     Etag |-> FormatNat(r.CTime),
     MimeType |-> MimeDetect(r.Type = "dir"),
     Mtime |-> r.CTime,
     Path |-> path,
     PermissionSet |-> IF r.Type = "dir" THEN "permDir" ELSE "permFile",
     Size |-> r.Size,
     Owner |-> owner,
     ParentId |-> Some(parentID)]

\* fs.placeholderResourceInfo; mtime and resID are pointers
placeholderResourceInfo(path, owner, mtime, resID) ==
    [Type |-> "CONTAINER",
     Id |-> IF resID = None THEN [StorageId |-> CbackStorageID, OpaqueId |-> path]
            ELSE resID[1],
     Etag |-> <<>>,
     MimeType |-> MimeDetect(TRUE),
     Mtime |-> IF mtime = None THEN 0 ELSE mtime[1],
     Path |-> path,
     PermissionSet |-> "permDir",
     Size |-> 0,
     Owner |-> owner,
     ParentId |-> None]

\* what an operation of the driver returns, with the cache and the requests
\* sent; backups is the list listBackups returned, when it returned one
Return(st, err, infos, backups) ==
    [cache |-> st.cache, calls |-> st.calls, err |-> err, infos |-> infos, backups |-> backups]

\* getSnapshot once the snapshots l are listed and the timestamp is parsed as t
getSnapshotOf(l, t) ==
    IF ~l.ok THEN WrapReturn(l.cache, l.calls, FALSE, "RemoteError")
    ELSE IF ~t.ok THEN WrapReturn(l.cache, l.calls, FALSE, "ParseError")
    ELSE IF \A i \in 1..Len(l.val) : l.val[i].Time # t.val
        THEN WrapReturn(l.cache, l.calls, FALSE, "NotFound")
    ELSE WrapReturn(l.cache, l.calls, TRUE,
                    l.val[CHOOSE i \in 1..Len(l.val) :
                            /\ l.val[i].Time = t.val
                            /\ \A j \in 1..(i - 1) : l.val[j].Time # t.val])

\* fs.getSnapshot
getSnapshot(st, env, username, backupID, timestamp) ==
    getSnapshotOf(listSnapshots(st, env, username, backupID),
                  ParseTime(timestamp, env.conf.g))

\* GetMD, reference with a resource id: what the id decodes to, with the
\* path of the reference joined to the path of the id
GetMDByID(dec, refPath) ==
    [source |-> dec.source, snapshot |-> dec.snapshot,
     path |-> IF refPath # <<>> THEN Join(<<dec.path, refPath>>) ELSE dec.path,
     id |-> dec.id, ok |-> dec.ok]

\* GetMD, reference with a path only: what split returns, with the source
\* converted by the cback template
GetMDByPath(sp, tplCback) == [sp EXCEPT !.source = convertTemplate(@, tplCback)]

\* GetMD, a file or a folder in a snapshot: res is what stat returned
GetMDStat(res, u, backups, loc) ==
    IF ~res.ok THEN Return(res, "RemoteError", <<>>, Some(backups))
    ELSE Return(res, "",
                << convertToResourceInfo(
                       res.val[1],
                       Join(<<loc.source, loc.snapshot, loc.path>>),
                       encodeBackupInResourceID(loc.id, loc.snapshot, loc.source, loc.path),
                       encodeBackupInResourceID(loc.id, loc.snapshot, loc.source, Dir(loc.path)),
                       u.Id) >>,
                Some(backups))

\* GetMD, a snapshot: snap is what getSnapshot returned
GetMDSnapshot(snap, u, backups, loc) ==
    IF ~snap.ok THEN Return(snap, snap.val, <<>>, Some(backups))
    ELSE Return(snap, "",
                << placeholderResourceInfo(
                       Join(<<loc.source, loc.snapshot>>), u.Id, Some(snap.val.Time),
                       Some(encodeBackupInResourceID(loc.id, loc.snapshot, loc.source, <<>>))) >>,
                Some(backups))

\* GetMD, the reference resolved no backup: parent is what isParentOfBackup
\* returned for the source
GetMDParent(st, u, backups, source, parent) ==
    IF parent = "panic" THEN Return(st, "panic", <<>>, Some(backups))
    ELSE IF parent = "true"
        THEN Return(st, "", << placeholderResourceInfo(source, u.Id, None, None) >>,
                    Some(backups))
    ELSE Return(st, "NotFound", <<>>, Some(backups))

\* GetMD from the point where source, snapshot, path, id and ok are set (loc)
GetMDAt(st, env, u, backups, loc) ==
    IF loc.ok THEN
        IF loc.snapshot # <<>> /\ loc.path # <<>> THEN
            GetMDStat(stat(st, env, u.Username, loc.id, loc.snapshot,
                           Join(<<loc.source, loc.path>>)),
                      u, backups, loc)
        ELSE IF loc.snapshot # <<>> /\ loc.path = <<>> THEN
            GetMDSnapshot(getSnapshot(st, env, u.Username, loc.id, loc.snapshot),
                          u, backups, loc)
        ELSE Return(st, "", << placeholderResourceInfo(loc.source, u.Id, None, None) >>,
                    Some(backups))
    ELSE GetMDParent(st, u, backups, loc.source, isParentOfBackup(loc.source, backups))

\* GetMD from the point where listBackups returned lb; a nil ref is
\* dereferenced
GetMDListed(lb, env, u, ref) ==
    IF ~lb.ok THEN Return(lb, "RemoteError", <<>>, None)
    ELSE IF ref = None THEN Return(lb, "panic", <<>>, Some(lb.val))
    ELSE GetMDAt([cache |-> lb.cache, calls |-> lb.calls], env, u, lb.val,
                 IF ref[1].ResourceId # None
                 THEN GetMDByID(decodeResourceID(ref[1].ResourceId), ref[1].Path)
                 ELSE GetMDByPath(split(ref[1].Path, lb.val), env.conf.tplCback))

\* GetMD that lists the backups before it looks for the user
GetMD_ListsFirst(st, env, user, ref) ==
    IF user = None THEN Return(listBackups(st, env, <<>>), "UserRequired", <<>>, None)
    ELSE GetMDListed(listBackups(st, env, user[1].Username), env, user[1], ref)

\* fs.GetMD; user is the user of the context, if any, and ref a pointer
GetMD(st, env, user, ref) ==
    IF user = None THEN Return(st, "UserRequired", <<>>, None)
    ELSE GetMDListed(listBackups(st, env, user[1].Username), env, user[1], ref)

\* ListFolder, the content of a folder of a snapshot: content is what
\* listFolder returned
ListFolderContent(content, u, backups, loc) ==
    IF ~content.ok THEN Return(content, "RemoteError", <<>>, Some(backups))
    ELSE Return(content, "",
                [i \in 1..Len(content.val) |->
                    convertToResourceInfo(
                        content.val[i],
                        Join(<<loc.source, loc.snapshot, loc.path, Base(content.val[i].Name)>>),
                        encodeBackupInResourceID(loc.id, loc.snapshot, loc.source,
                                                 Join(<<loc.path, Base(content.val[i].Name)>>)),
                        encodeBackupInResourceID(loc.id, loc.snapshot, loc.source, loc.path),
                        u.Id)],
                Some(backups))

\* ListFolder, the snapshots of a backup as folders: snapshots is what
\* listSnapshots returned
ListFolderSnapshots(snapshots, g, u, backups, loc) ==
    IF ~snapshots.ok THEN Return(snapshots, "RemoteError", <<>>, Some(backups))
    ELSE Return(snapshots, "",
                [i \in 1..Len(snapshots.val) |->
                    placeholderResourceInfo(
                        Join(<<loc.source, FormatTime(snapshots.val[i].Time, g)>>),
                        u.Id,
                        Some(snapshots.val[i].Time),
                        Some(encodeBackupInResourceID(
                                 loc.id, FormatTime(snapshots.val[i].Time, g), loc.source, <<>>)))],
                Some(backups))

RECURSIVE ListFolderParents_NoResSet(_, _, _, _)
\* the loop without resSet: one placeholder per backup below the path
ListFolderParents_NoResSet(refPath, sourceSplit, backups, paths) ==
    IF backups = <<>> THEN [panic |-> FALSE, paths |-> paths]
    ELSE
        LET backupSplit == Split(Head(backups).Source, "/")
            h == hasPrefix(backupSplit, sourceSplit)
        IN  IF h = "panic" THEN [panic |-> TRUE, paths |-> paths]
            ELSE IF h = "false"
                THEN ListFolderParents_NoResSet(refPath, sourceSplit, Tail(backups), paths)
            ELSE IF Len(sourceSplit) + 1 > Len(backupSplit) THEN [panic |-> TRUE, paths |-> paths]
            ELSE ListFolderParents_NoResSet(
                     refPath, sourceSplit, Tail(backups),
                     Append(paths, Join(<<refPath, backupSplit[Len(sourceSplit) + 1]>>)))

RECURSIVE ListFolderParents(_, _, _, _)
\* ListFolder, the loop over the backups the path is a parent of: the paths
\* of the placeholders so far (resSet keeps them distinct), or a panic where
\* an index is read past the end of backupSplit
ListFolderParents(refPath, sourceSplit, backups, paths) ==
    IF backups = <<>> THEN [panic |-> FALSE, paths |-> paths]
    ELSE
        LET backupSplit == Split(Head(backups).Source, "/")
            h == hasPrefix(backupSplit, sourceSplit)
        IN  IF h = "panic" THEN [panic |-> TRUE, paths |-> paths]
            ELSE IF h = "false"
                THEN ListFolderParents(refPath, sourceSplit, Tail(backups), paths)
            ELSE IF Len(sourceSplit) + 1 > Len(backupSplit) THEN [panic |-> TRUE, paths |-> paths]
            ELSE ListFolderParents(
                     refPath, sourceSplit, Tail(backups),
                     IF \E i \in 1..Len(paths) :
                            paths[i] = Join(<<refPath, backupSplit[Len(sourceSplit) + 1]>>)
                     THEN paths
                     ELSE Append(paths, Join(<<refPath, backupSplit[Len(sourceSplit) + 1]>>)))

\* ListFolder, the path is in no backup: parents is what the loop collected
ListFolderOfParent(st, u, backups, parents) ==
    IF parents.panic THEN Return(st, "panic", <<>>, Some(backups))
    ELSE IF parents.paths # <<>>
        THEN Return(st, "",
                    [i \in 1..Len(parents.paths) |->
                        placeholderResourceInfo(parents.paths[i], u.Id, None, None)],
                    Some(backups))
    ELSE Return(st, "NotFound", <<>>, Some(backups))

\* ListFolder from the point where split returned loc
ListFolderAt(st, env, u, backups, refPath, loc) ==
    IF loc.ok THEN
        IF loc.snapshot # <<>> THEN
            ListFolderContent(listFolder(st, env, u.Username, loc.id, loc.snapshot,
                                         Join(<<loc.source, loc.path>>)),
                              u, backups, loc)
        ELSE ListFolderSnapshots(listSnapshots(st, env, u.Username, loc.id),
                                 env.conf.g, u, backups, loc)
    ELSE ListFolderOfParent(st, u, backups,
                            ListFolderParents(refPath, PathSplit(refPath), backups, <<>>))

\* ListFolder from the point where listBackups returned lb; a nil ref is
\* dereferenced
ListFolderListed(lb, env, u, ref) ==
    IF ~lb.ok THEN Return(lb, "RemoteError", <<>>, None)
    ELSE IF ref = None THEN Return(lb, "panic", <<>>, Some(lb.val))
    ELSE ListFolderAt([cache |-> lb.cache, calls |-> lb.calls], env, u, lb.val,
                      ref[1].Path, split(ref[1].Path, lb.val))

\* fs.ListFolder
ListFolder(st, env, user, ref) ==
    IF user = None THEN Return(st, "UserRequired", <<>>, None)
    ELSE ListFolderListed(listBackups(st, env, user[1].Username), env, user[1], ref)

\* what Download returns: Return with the stream val
ReturnStream(st, err, val, backups) ==
    [cache |-> st.cache, calls |-> st.calls, err |-> err, infos |-> <<>>,
     backups |-> backups, val |-> val]

\* Download, the request of the stream: dec is what the id of the file
\* decodes to, source the source converted by the cback template
DownloadStream(md, env, u, dec, source) ==
    LET r == RemoteDownload(env.cat, env.up, u.Username, dec.id, dec.snapshot,
                            Join(<<source, dec.path>>))
        calls == Append(md.calls,
                        RemoteCall("Download", u.Username, dec.id, dec.snapshot,
                                   Join(<<source, dec.path>>)))
    IN  IF r.ok THEN ReturnStream([cache |-> md.cache, calls |-> calls], "", r.val, md.backups)
        ELSE ReturnStream([cache |-> md.cache, calls |-> calls], "RemoteError", <<>>, md.backups)

\* Download that requests the stream of whatever GetMD found
DownloadOf_NoTypeCheck(md, env, u) ==
    IF md.err # "" THEN ReturnStream(md, md.err, <<>>, md.backups)
    ELSE IF ~decodeResourceID(Some(md.infos[1].Id)).ok
        THEN ReturnStream(md, "BadRequest", <<>>, md.backups)
    ELSE DownloadStream(md, env, u, decodeResourceID(Some(md.infos[1].Id)),
                        convertTemplate(decodeResourceID(Some(md.infos[1].Id)).source,
                                        env.conf.tplCback))

\* Download from the point where GetMD returned md
DownloadOf(md, env, u) ==
    IF md.err # "" THEN ReturnStream(md, md.err, <<>>, md.backups)
    ELSE IF md.infos[1].Type # "FILE" THEN ReturnStream(md, "BadRequest", <<>>, md.backups)
    ELSE IF ~decodeResourceID(Some(md.infos[1].Id)).ok
        THEN ReturnStream(md, "BadRequest", <<>>, md.backups)
    ELSE DownloadStream(md, env, u, decodeResourceID(Some(md.infos[1].Id)),
                        convertTemplate(decodeResourceID(Some(md.infos[1].Id)).source,
                                        env.conf.tplCback))

\* fs.Download
Download(st, env, user, ref) ==
    IF user = None THEN ReturnStream(st, "UserRequired", <<>>, None)
    ELSE DownloadOf(GetMD(st, env, user, ref), env, user[1])

\* the operations that are not supported
StubOps ==
    {"GetHome", "CreateHome", "CreateDir", "TouchFile", "Delete", "Move", "ListRevisions",
     "DownloadRevision", "RestoreRevision", "GetPathByID", "AddGrant", "RemoveGrant",
     "UpdateGrant", "DenyGrant", "ListGrants", "GetQuota", "CreateReference", "Shutdown",
     "SetArbitraryMetadata", "UnsetArbitraryMetadata", "EmptyRecycle", "CreateStorageSpace",
     "ListRecycle", "RestoreRecycleItem", "PurgeRecycleItem", "ListStorageSpaces",
     "UpdateStorageSpace", "SetLock", "GetLock", "RefreshLock", "Unlock", "Upload",
     "InitiateUpload"}

\* an unsupported operation that empties the cache
NotSupported_Flush(st, op, ref) == Return([st EXCEPT !.cache = <<>>], "NotSupported", <<>>, None)

\* each of the operations of StubOps: errtypes.NotSupported, whatever ref is
NotSupported(st, op, ref) == Return(st, "NotSupported", <<>>, None)

(***************************************************************************)
(* The driver as the host calls it: Spec calls GetMD and the unsupported   *)
(* operations with any user and reference while time passes and the        *)
(* catalog changes.  last is the last call.                                *)
(***************************************************************************)
UserOf(username) == [Username |-> username, Id |-> [OpaqueId |-> username]]

\* the user of the context: none, or one of the users
ContextUsers == {None} \cup {Some(UserOf(u)) : u \in Users}

PathZ == <<"/", "z", "z">>

PathA == <<"/", "a">>

\* paths under a backup as each deployment shows them, an ancestor of a
\* backup, and a path that has nothing to do with any backup
DriverPaths ==
    { <<>>, PathZ, PathA, SrcAB,
      SrcAB \o <<"/", "1", "0">>,
      SrcAB \o <<"/", "1", "0", "/", "d", "/", "f">>,
      <<"/", "e">> \o SrcAB \o <<"/", "1", "/", "d", "/", "f">> }

\* an id the driver minted for the file d/f
RidOwn == encodeBackupInResourceID(1, <<"1", "0">>, SrcAB, <<"d", "/", "f">>)

\* resource ids: of the driver, of another storage with the same payload,
\* of another storage, and the id of a placeholder
DriverRids ==
    { RidOwn,
      [RidOwn EXCEPT !.StorageId = "other"],
      [StorageId |-> "other", OpaqueId |-> <<"z", "z">>],
      [StorageId |-> CbackStorageID, OpaqueId |-> PathA] }

DriverRefs ==
    {None}
    \cup {Some([ResourceId |-> None, Path |-> p]) : p \in DriverPaths}
    \cup {Some([ResourceId |-> Some(r), Path |-> <<>>]) : r \in DriverRids}

\* the driver is followed with a cache of one entry
DriverConfs == {c \in Confs : c.Size = 1 /\ c.Expiration = MaxExpiration}

\* what a request of the driver may meet: the catalog, or the service down
DriverRemotes == {[cat |-> catalog, up |-> u] : u \in BOOLEAN}

\* what last holds after the operation op returned r
LastOf(op, user, ref, r) ==
    [LastIdle EXCEPT !.op = op, !.user = user, !.ref = ref, !.err = r.err,
                     !.infos = r.infos, !.calls = r.calls, !.backups = r.backups]

CallGetMD ==
    \E user \in ContextUsers, ref \in DriverRefs, remote \in DriverRemotes :
        LET r == GetMD([cache |-> cache, calls |-> <<>>], Env(remote.cat, remote.up), user, ref) IN
        /\ cache' = r.cache
        /\ last' = LastOf("GetMD", user, ref, r)
        /\ UNCHANGED <<codec, resolver, conf, now, watch, hist, catalog, race, keyer, pkgVars>>

CallNotSupported ==
    \E op \in StubOps, ref \in {None, Some([ResourceId |-> None, Path |-> PathA])} :
        LET r == NotSupported([cache |-> cache, calls |-> <<>>], op, ref) IN
        /\ cache' = r.cache
        /\ last' = LastOf(op, None, ref, r)
        /\ UNCHANGED <<codec, resolver, conf, now, watch, hist, catalog, race, keyer, pkgVars>>

Init ==
    /\ codec = CodecIdle
    /\ resolver = ResolverIdle
    /\ conf \in DriverConfs
    /\ cache = <<>>
    /\ now = 0
    /\ last = LastIdle
    /\ watch = [op |-> "none", args |-> NoArgs]
    /\ hist = HistInit
    /\ catalog = CatalogV1
    /\ race = RaceIdle
    /\ PackagesIdle
    /\ keyer = KeyerIdle

Next == CallGetMD \/ CallNotSupported \/ Tick

Spec == Init /\ [][Next]_vars

(***************************************************************************)
(* Browsing: SpecBrowse lists folders, looks up the entries a listing      *)
(* returned, by path and then by the id of the record found, and           *)
(* downloads, with or without a user, in each of three deployments.  The   *)
(* catalog does not change and nothing expires meanwhile; each request may *)
(* find the catalog service down.                                          *)
(***************************************************************************)
PathE == <<"/", "e">>

\* the folder d of the snapshot of time 10, identity templates
PathSnapD == SrcAB \o <<"/", "1", "0", "/", "d">>

\* the snapshot of time 10, identity templates
PathSnap == SrcAB \o <<"/", "1", "0">>

\* the paths listed: ancestors of the backups, a path in no
\* backup, the source of a backup as each deployment shows it, a snapshot
\* and the folder d of a snapshot as each deployment shows it
ListPaths ==
    {PathA, PathE, PathZ, SrcAB, PathE \o SrcAB, PathSnap, PathSnapD,
     PathE \o SrcAB \o <<"/", "1", "/", "d">>}

ListRefs == {None} \cup {Some([ResourceId |-> None, Path |-> p]) : p \in ListPaths}

\* the references downloaded: the file d/f as each deployment shows it, by
\* path and by id, the folder d, a backup source, a path in no backup
DownloadRefs ==
    {None, Some([ResourceId |-> Some(RidOwn), Path |-> <<>>])}
    \cup {Some([ResourceId |-> None, Path |-> p]) :
            p \in {PathSnapD \o <<"/", "f">>,
                   PathE \o SrcAB \o <<"/", "1", "/", "d", "/", "f">>,
                   PathSnapD, SrcAB, PathZ}}

\* a deployment that shows the sources without their prefix /e: the cback
\* template puts it back, and is not idempotent
ConfStripped ==
    [Size |-> 1, Expiration |-> MaxExpiration, tplStorage |-> TplTrimPrefix,
     tplCback |-> TplPrepend, g |-> 1]

\* the deployments browsed, each with the catalog of its site
BrowseSetups ==
    {[conf |-> c, cat |-> CatalogV2] : c \in DriverConfs}
    \cup {[conf |-> ConfStripped, cat |-> CatalogV3]}

\* who browses: nobody, or the owner of the backups
BrowseUsers == {None, Some(UserOf(Al))}

CallListFolderOfDriver ==
    \E user \in BrowseUsers, ref \in ListRefs, remote \in DriverRemotes :
        LET r == ListFolder([cache |-> cache, calls |-> <<>>], Env(remote.cat, remote.up),
                            user, ref) IN
        /\ cache' = r.cache
        /\ last' = LastOf("ListFolder", user, ref, r)
        /\ UNCHANGED <<codec, resolver, conf, now, watch, hist, catalog, race, keyer, pkgVars>>

\* the references a client has after the last call: the paths and the ids
\* of the entries of a listing, or the id of the record GetMD found by path
RefsOfLast ==
    IF last.op = "ListFolder" /\ last.err = ""
    THEN {Some([ResourceId |-> None, Path |-> last.infos[i].Path]) : i \in 1..Len(last.infos)}
         \cup {Some([ResourceId |-> Some(last.infos[i].Id), Path |-> <<>>]) :
                    i \in 1..Len(last.infos)}
    ELSE IF last.op = "GetMD" /\ last.err = "" /\ last.ref # None /\ last.ref[1].ResourceId = None
    THEN {Some([ResourceId |-> Some(last.infos[1].Id), Path |-> <<>>])}
    ELSE {}

\* GetMD of a reference the last call returned
CallGetMDOfListed ==
    \E user \in BrowseUsers, ref \in RefsOfLast, remote \in DriverRemotes :
        LET r == GetMD([cache |-> cache, calls |-> <<>>], Env(remote.cat, remote.up), user, ref)
        IN
        /\ cache' = r.cache
        /\ last' = LastOf("GetMD", user, ref, r)
        /\ UNCHANGED <<codec, resolver, conf, now, watch, hist, catalog, race, keyer, pkgVars>>

CallDownload ==
    \E user \in BrowseUsers, ref \in DownloadRefs, remote \in DriverRemotes :
        LET r == Download([cache |-> cache, calls |-> <<>>], Env(remote.cat, remote.up),
                          user, ref) IN
        /\ cache' = r.cache
        /\ last' = [LastOf("Download", user, ref, r) EXCEPT !.val = r.val]
        /\ UNCHANGED <<codec, resolver, conf, now, watch, hist, catalog, race, keyer, pkgVars>>

BrowseInit ==
    /\ codec = CodecIdle
    /\ resolver = ResolverIdle
    /\ \E setup \in BrowseSetups : conf = setup.conf /\ catalog = setup.cat
    /\ cache = <<>>
    /\ now = 0
    /\ last = LastIdle
    /\ watch = [op |-> "none", args |-> NoArgs]
    /\ hist = HistInit
    /\ race = RaceIdle
    /\ PackagesIdle
    /\ keyer = KeyerIdle

BrowseNext == CallListFolderOfDriver \/ CallGetMDOfListed \/ CallDownload

SpecBrowse == BrowseInit /\ [][BrowseNext]_vars

(***************************************************************************)
(* Two concurrent calls: SpecRace runs two calls of listBackups, or two    *)
(* of listSnapshots, for the same user and backup, statement by statement  *)
(* in any interleaving, starting with an empty cache.  A slice is an       *)
(* address in race.heap; its elements are what the catalog sent (raw), the *)
(* element as it is now (obj) and how many times the loop of a wrapper     *)
(* went over it (n).  The cache holds addresses.  Each call of the client  *)
(* decodes the response into a slice of its own.                           *)
(***************************************************************************)
Procs == {1, 2}

RaceKinds == {"backups", "snapshots"}

\* the backup whose snapshots are listed
RaceBackup == 1

RaceKey(kind) ==
    IF kind = "backups" THEN KeyBackups \o Al ELSE KeyOf2(KeySnapshots, Al, RaceBackup)

\* client.ListBackups or client.ListSnapshots
RaceRemote(kind, up) ==
    IF kind = "backups" THEN RemoteListBackups(catalog, up, Al)
    ELSE RemoteListSnapshots(catalog, up, Al, RaceBackup)

\* the body of the loop of the wrapper on one element: lines 38-40 of
\* listBackups, lines 81-85 of listSnapshots
RaceTransform(kind, obj) ==
    IF kind = "backups" THEN ConvertSources(<<obj>>, conf.tplStorage)[1]
    ELSE TruncateTimes(<<obj>>, conf.g)[1]

\* the statement that follows the fetch, the body of the loop on element
\* i of n (0 where the loop was not entered), and the write to the cache
RacePcAfter_SetFirst(pc, i, n) ==
    IF pc = "fetch" THEN "set"
    ELSE IF pc = "set" THEN (IF n = 0 THEN "done" ELSE "loop")
    ELSE IF i < n THEN "loop" ELSE "done"

RacePcAfter(pc, i, n) ==
    IF pc = "fetch" THEN (IF n = 0 THEN "set" ELSE "loop")
    ELSE IF pc = "loop" THEN (IF i < n THEN "loop" ELSE "set")
    ELSE "done"

RaceProcStart == [pc |-> "get", obj |-> 0, i |-> 0, ret |-> 0, err |-> FALSE]

\* process p moves to pc; a process that is done returns its slice
RaceMove(pr, pc) == [pr EXCEPT !.pc = pc, !.ret = IF pc = "done" THEN pr.obj ELSE pr.ret]

\* if d, err := f.cache.Get(key); err == nil { return d, nil }
RaceGet(p) ==
    /\ race.stage = "run" /\ race.proc[p].pc = "get"
    /\ LET got == CacheGet(cache, RaceKey(race.kind), now) IN
        /\ cache' = got.cache
        /\ race' = [race EXCEPT !.proc[p] =
                        IF got.hit THEN [@ EXCEPT !.pc = "done", !.ret = got.value]
                        ELSE [@ EXCEPT !.pc = "fetch"]]
    /\ UNCHANGED <<codec, resolver, conf, now, last, watch, hist, catalog, keyer, pkgVars>>

\* l, err := f.client.List...(ctx, ...); if err != nil { return nil, err }
RaceFetch(p) ==
    /\ race.stage = "run" /\ race.proc[p].pc = "fetch"
    /\ \E up \in BOOLEAN :
        LET r == RaceRemote(race.kind, up)
            slice == [i \in 1..Len(r.val) |-> [raw |-> r.val[i], obj |-> r.val[i], n |-> 0]]
        IN  race' = IF r.ok
                    THEN [race EXCEPT
                            !.heap = Append(@, slice),
                            !.proc[p] = RaceMove([@ EXCEPT !.obj = Len(race.heap) + 1],
                                                 RacePcAfter("fetch", 0, Len(slice)))]
                    ELSE [race EXCEPT !.proc[p] = [@ EXCEPT !.pc = "done", !.err = TRUE]]
    /\ UNCHANGED <<codec, resolver, conf, cache, now, last, watch, hist, catalog, keyer, pkgVars>>

\* one round of the loop: the next element is converted in place
RaceLoop(p) ==
    /\ race.stage = "run" /\ race.proc[p].pc = "loop"
    /\ LET a == race.proc[p].obj
           i == race.proc[p].i + 1
       IN  race' = [race EXCEPT
                        !.heap[a][i] = [@ EXCEPT !.obj = RaceTransform(race.kind, @), !.n = @ + 1],
                        !.proc[p] = RaceMove([@ EXCEPT !.i = i],
                                             RacePcAfter("loop", i, Len(race.heap[a])))]
    /\ UNCHANGED <<codec, resolver, conf, cache, now, last, watch, hist, catalog, keyer, pkgVars>>

\* _ = f.cache.SetWithExpire(key, l, ...)
RaceSet(p) ==
    /\ race.stage = "run" /\ race.proc[p].pc = "set"
    /\ cache' = CacheSetWithExpire(cache, RaceKey(race.kind), race.proc[p].obj, now,
                                   conf.Expiration, conf.Size)
    /\ race' = [race EXCEPT
                    !.wrote = Append(@, p),
                    !.proc[p] = RaceMove(@, RacePcAfter("set", 0, Len(race.heap[race.proc[p].obj])))]
    /\ UNCHANGED <<codec, resolver, conf, now, last, watch, hist, catalog, keyer, pkgVars>>

RaceInit ==
    /\ codec = CodecIdle
    /\ resolver = ResolverIdle
    /\ conf \in DriverConfs
    /\ cache = <<>>
    /\ now = 0
    /\ last = LastIdle
    /\ watch = [op |-> "none", args |-> NoArgs]
    /\ hist = HistInit
    /\ catalog = CatalogV2
    /\ race \in {[RaceIdle EXCEPT !.stage = "run", !.kind = k,
                                  !.proc = [p \in Procs |-> RaceProcStart]] : k \in RaceKinds}
    /\ keyer = KeyerIdle
    /\ PackagesIdle

RaceNext == \E p \in Procs : RaceGet(p) \/ RaceFetch(p) \/ RaceLoop(p) \/ RaceSet(p)

SpecRace == RaceInit /\ [][RaceNext]_vars

(***************************************************************************)
(* The cache keys: SpecKeys takes two wrapper calls a and b.  The call a   *)
(* misses and stores what the catalog returned for its parameters (the     *)
(* stored value is labelled with them) under its key; then the call b      *)
(* looks its own key up.                                                   *)
(***************************************************************************)
\* user names, one of them with a colon
KeyUsers == {Al, Al \o <<":", "1">>}

KeyIDs == {1, 2}

\* snapshot segments of a path and paths in a backup, with and without colons
KeySnaps == {<<"s">>, <<"2", ":", "s">>, <<"s", ":", "x">>}

KeyPaths == {<<"/", "p">>, <<"y">>, <<"x", ":", "y">>}

KeyCalls ==
    {[op |-> "listBackups", args |-> [NoArgs EXCEPT !.username = u]] : u \in KeyUsers}
    \cup {[op |-> "listSnapshots", args |-> [NoArgs EXCEPT !.username = u, !.id = i]] :
            u \in KeyUsers, i \in KeyIDs}
    \cup {[op |-> o, args |-> [username |-> u, id |-> i, snapshot |-> sn, path |-> p]] :
            o \in {"stat", "listFolder"}, u \in KeyUsers, i \in KeyIDs,
            sn \in KeySnaps, p \in KeyPaths}

\* the miss of call a: SetWithExpire(key, value of a)
KeyStore ==
    /\ keyer.stage = "in"
    /\ cache' = CacheSetWithExpire(cache, WrapperKey(keyer.a), keyer.a, now,
                                   conf.Expiration, conf.Size)
    /\ keyer' = [keyer EXCEPT !.stage = "stored", !.ka = WrapperKey(keyer.a)]
    /\ UNCHANGED <<codec, resolver, conf, now, last, watch, hist, catalog, race, pkgVars>>

\* the lookup of call b: cache.Get(key)
KeyLookup ==
    /\ keyer.stage = "stored"
    /\ LET got == CacheGet(cache, WrapperKey(keyer.b), now) IN
        /\ cache' = got.cache
        /\ keyer' = [keyer EXCEPT !.stage = "done", !.kb = WrapperKey(keyer.b),
                                  !.got = [hit |-> got.hit, value |-> got.value]]
    /\ UNCHANGED <<codec, resolver, conf, now, last, watch, hist, catalog, race, pkgVars>>

KeysInit ==
    /\ codec = CodecIdle
    /\ resolver = ResolverIdle
    /\ conf \in DriverConfs
    /\ cache = <<>>
    /\ now = 0
    /\ last = LastIdle
    /\ watch = [op |-> "none", args |-> NoArgs]
    /\ hist = HistInit
    /\ catalog = CatalogV1
    /\ race = RaceIdle
    /\ PackagesIdle
    /\ \E a \in KeyCalls, b \in KeyCalls :
            keyer = [KeyerIdle EXCEPT !.stage = "in", !.a = a, !.b = b]

KeysNext == KeyStore \/ KeyLookup

SpecKeys == KeysInit /\ [][KeysNext]_vars

(***************************************************************************)
(* Specifications of the pure functions.                                   *)
(***************************************************************************)
SpecCodecInit == CodecInit /\ resolver = ResolverIdle /\ DriverIdle

SpecCodecNext == CodecEncode \/ CodecDecode

SpecCodec == SpecCodecInit /\ [][SpecCodecNext]_vars

\* ListFolder where split found no backup: the error and the paths of the
\* placeholders of the parent branch
ResolveList ==
    /\ resolver.stage = "done"
    /\ ~resolver.out.ok
    /\ LET r == ListFolderOfParent([cache |-> <<>>, calls |-> <<>>], UserOf(Al), resolver.backups,
                                   ListFolderParents(resolver.path, PathSplit(resolver.path),
                                                     resolver.backups, <<>>))
       IN  resolver' = [resolver EXCEPT
                            !.stage = "listed",
                            !.listed = [err |-> r.err,
                                        paths |-> [i \in 1..Len(r.infos) |-> r.infos[i].Path]]]
    /\ UNCHANGED <<codec, driverVars>>

SpecSplitInit == ResolverInit /\ codec = CodecIdle /\ DriverIdle

SpecSplitNext == ResolveSplit \/ ResolveParent \/ ResolveList

SpecSplit == SpecSplitInit /\ [][SpecSplitNext]_vars

(***************************************************************************)
(* Properties of the codec, checked under SpecCodec.                       *)
(***************************************************************************)
\* C1: decoding the id that encodeBackupInResourceID made of (backupID,
\* snapshotID, source, path), where snapshotID and source hold no '#',
\* returns exactly (source, snapshotID, path, backupID) with ok = true, and
\* the id carries the storage id "cback".
C1_RoundTrip ==
    (codec.stage = "done" /\ codec.encoded) =>
        /\ codec.out.ok
        /\ ~codec.out.panic
        /\ codec.out.source = codec.in.source
        /\ codec.out.snapshot = codec.in.snapshotID
        /\ codec.out.path = codec.in.path
        /\ codec.out.id = codec.in.backupID
        /\ codec.rid[1].StorageId = "cback"

\* a tuple with a negative backup id and a path holding '#' and '/' went
\* through the codec
C1_Witness ==
    /\ codec.stage = "done" /\ codec.encoded /\ codec.out.ok
    /\ codec.in.backupID < 0
    /\ codec.in.path = <<"#", "/">>
    /\ codec.in.source = <<"/", "a">>

\* the ways the claim calls a resource id malformed
IsDecimalInteger(s) ==
    LET body == IF s # <<>> /\ s[1] \in {"+", "-"} THEN Tail(s) ELSE s IN
    body # <<>> /\ \A i \in 1..Len(body) : body[i] \in DigitSet

NotBase64(r) == r # None /\ ~B64Decode(r[1].OpaqueId).ok

TooFewFields(r) ==
    r # None /\ B64Decode(r[1].OpaqueId).ok
    /\ CountSep(B64Decode(r[1].OpaqueId).data, "#") < 3

FirstFieldNotInteger(r) ==
    r # None /\ B64Decode(r[1].OpaqueId).ok
    /\ ~IsDecimalInteger(Split(B64Decode(r[1].OpaqueId).data, "#")[1])

Malformed(r) == r = None \/ NotBase64(r) \/ TooFewFields(r) \/ FirstFieldNotInteger(r)

\* C2: decodeResourceID never panics, and it returns ok = false for a nil
\* resource id, for an opaque id that is not base64, for a payload of fewer
\* than four '#'-separated fields and for a first field that is no decimal
\* integer.
C2_MalformedRejected ==
    codec.stage = "done" =>
        /\ ~codec.out.panic
        /\ Malformed(codec.rid) => ~codec.out.ok

\* a base64 payload of four fields whose first field is no integer was decoded
C2_Witness ==
    /\ codec.stage = "done" /\ ~codec.encoded
    /\ codec.rid # None
    /\ FirstFieldNotInteger(codec.rid) /\ ~TooFewFields(codec.rid)
    /\ ~codec.out.ok

(***************************************************************************)
(* Properties of the resolver, checked under SpecSplit.                    *)
(***************************************************************************)
\* the indices of the backups whose source the path starts with
Matching(path, backups) == {i \in 1..Len(backups) : HasPrefixStr(path, backups[i].Source)}

Lowest(S) == CHOOSE i \in S : \A j \in S : i <= j

\* C10: split returns the backup with the lowest list index whose source
\* matches, not the longest match: with the backups [/a/b, /a/b/c] the path
\* /a/b/c/snap1/x resolves to /a/b with snapshot "c" and path "snap1/x".
C10_FirstMatchWins ==
    resolver.stage \in {"split", "done"} =>
        LET m == Matching(resolver.path, resolver.backups) IN
        /\ resolver.out.ok = (m # {})
        /\ m # {} =>
            /\ resolver.out.id = resolver.backups[Lowest(m)].ID
            /\ resolver.out.source = resolver.backups[Lowest(m)].Source
        /\ (/\ resolver.path = ExamplePath
            /\ resolver.backups = << [ID |-> 1, Source |-> SrcAB], [ID |-> 2, Source |-> SrcABC] >>)
           => resolver.out = [source |-> SrcAB, snapshot |-> <<"c">>,
                              path |-> <<"s", "n", "a", "p", "1", "/", "x">>,
                              id |-> 1, ok |-> TRUE]

\* the example was resolved, and two backups matched it
C10_Witness ==
    /\ resolver.stage = "split"
    /\ resolver.path = ExamplePath
    /\ resolver.backups = << [ID |-> 1, Source |-> SrcAB], [ID |-> 2, Source |-> SrcABC] >>
    /\ Cardinality(Matching(resolver.path, resolver.backups)) = 2
    /\ resolver.out.id = 1

(***************************************************************************)
(* Properties of the cache-aside wrappers, checked under SpecCache for the *)
(* followed call, which is any of the four.                                *)
(***************************************************************************)
WatchKey == WrapperKey(watch)

\* the followed call finds no live entry of its key
WatchMisses == ~CacheGet(cache, WatchKey, now).hit

CacheWithout(c, key) == SelectSeq(c, LAMBDA item : item.key # key)

\* C6: when a call succeeded, its entry has not expired and has not been
\* evicted, the next call with the same parameters sends nothing to the
\* catalog and returns the data the call before returned (the remapped
\* sources of listBackups, the truncated times of listSnapshots), whatever
\* the catalog holds by then.
C6_HitBypassesRemote ==
    [][(/\ last.op = watch.op /\ last.err = ""
        /\ WatchKey \in CacheKeys(cache)
        /\ now <= hist.written + conf.Expiration
        /\ CallWrapper(watch))
       => (last'.calls = <<>> /\ last'.err = "" /\ last'.val = last.val)]_vars

\* listBackups was answered from the cache, later than the fetch, with the
\* sources remapped by the storage template
C6_Witness ==
    /\ last.op = "listBackups" /\ watch.op = "listBackups"
    /\ last.err = "" /\ last.calls = <<>>
    /\ now > hist.written
    /\ last.val # <<>> /\ last.val[1].Source \in {<<"/", "e">> \o SrcAB, <<"/", "e">> \o SrcABC}

\* C7: an entry written at time t is never returned later than t plus the
\* configured expiration; a call after that sends the request to the catalog
\* again and, when the catalog answers, stores the fresh answer.
C7_Expiration ==
    [][((Lapsed \/ (last'.calls = <<>> /\ last'.err = "")) /\ CallWrapper(watch))
       => /\ (last'.calls = <<>> /\ last'.err = "")
                => (hist.written >= 0 /\ now <= hist.written + conf.Expiration)
          /\ Lapsed =>
                /\ last'.calls # <<>>
                /\ last'.err = "" =>
                    /\ cache' # <<>>
                    /\ cache'[1] = [key |-> WatchKey, value |-> last'.val,
                                    expiration |-> now + conf.Expiration]]_vars

\* a value was fetched again after the value fetched before had expired
C7_Witness ==
    /\ last.op = watch.op /\ last.err = "" /\ last.calls # <<>>
    /\ hist.lapsed /\ hist.written = now
    /\ cache[1].key = WatchKey /\ cache[1].value = last.val

\* C8 as claimed: when the catalog fails on a miss the error is returned,
\* the cache is left unchanged, and the next call sends the request again.
C8_FailureLeavesCacheUnchanged ==
    [][\A remote \in RemoteStates :
        (~remote.up /\ WatchMisses /\ CallWrapperAt(watch, remote))
        => (last'.err # "" /\ Len(last'.calls) = 1 /\ cache' = cache)]_vars

\* C8, amended: when the catalog fails on a miss the error is returned after
\* a single request, nothing is stored: the cache is unchanged but for the
\* expired entry of that key, which the lookup removed; and the next call
\* with the same parameters sends the request again.
C8_FailureNotCached ==
    [][/\ \A remote \in RemoteStates :
            (~remote.up /\ WatchMisses /\ CallWrapperAt(watch, remote))
            => /\ last'.err # "" /\ Len(last'.calls) = 1
               /\ cache' = CacheWithout(cache, WatchKey)
               /\ WatchKey \notin CacheKeys(cache) => cache' = cache
       /\ (last.op = watch.op /\ last.err # "" /\ CallWrapper(watch))
            => last'.calls # <<>>]_vars

\* a call failed and left the entries of the other calls in the cache
C8_Witness ==
    /\ last.op = watch.op /\ last.err # "" /\ Len(last.calls) = 1
    /\ WatchKey \notin CacheKeys(cache)
    /\ cache # <<>>

\* the entry of the followed call is evicted by the insertion of a new key
WatchEvicted ==
    /\ WatchKey \in CacheKeys(cache)
    /\ WatchKey \notin CacheKeys(cache')
    /\ cache' # <<>>
    /\ cache'[1].key \notin CacheKeys(cache)

\* C9: the cache never holds more than the configured number of entries,
\* and the entry an insertion evicts is the least recently accessed one:
\* every other entry was accessed after it, expired or not.
C9_BoundedLRU ==
    [][/\ Len(cache') <= conf.Size
       /\ WatchEvicted => \A k \in CacheKeys(cache) \ {WatchKey} : k \in hist.since]_vars

\* the entry of the followed call was evicted before it expired, from a full
\* cache of two entries that holds an expired entry
C9_Witness ==
    /\ last.op = watch.op /\ last.err = ""
    /\ WatchKey \notin CacheKeys(cache)
    /\ conf.Size = 2 /\ Len(cache) = 2
    /\ now <= hist.written + conf.Expiration
    /\ \E i \in 1..Len(cache) : IsExpired(cache[i], now)

(***************************************************************************)
(* Properties of the driver, checked under Spec.                           *)
(***************************************************************************)
\* the last call is a GetMD of a user whose backups were listed
GetMDListedBackups ==
    /\ last.op = "GetMD" /\ last.user # None /\ last.ref # None
    /\ last.backups # None

\* a resource id that is not of this driver
Foreign(rid) == rid.StorageId # CbackStorageID \/ ~decodeResourceID(Some(rid)).ok

\* C3: GetMD of a reference whose resource id is not of this driver (another
\* storage id, or a payload decodeResourceID rejects) returns a BadRequest or
\* a NotFound error, never a metadata record, never a panic, whatever the
\* backups of the user.
C3_ForeignIdRejected ==
    (/\ GetMDListedBackups
     /\ last.ref[1].ResourceId # None
     /\ Foreign(last.ref[1].ResourceId[1]))
    => (last.err \in {"BadRequest", "NotFound"} /\ last.infos = <<>>)

\* path is the source src or a path under it
InsideOf(path, src) == path = src \/ HasPrefixStr(path, src \o <<"/">>)

\* path is a strict ancestor of src, segment by segment
AncestorOf(path, src) ==
    path # src /\ (path = <<"/">> \/ HasPrefixStr(src, path \o <<"/">>))

\* C4: GetMD of a reference with only a path returns NotFound when the path
\* is neither a backup source of the user, nor inside one, nor a strict
\* ancestor of one, also when the user has backups.
C4_UnrelatedPathNotFound ==
    (/\ GetMDListedBackups
     /\ last.ref[1].ResourceId = None
     /\ \A i \in 1..Len(last.backups[1]) :
            /\ ~InsideOf(last.ref[1].Path, last.backups[1][i].Source)
            /\ ~AncestorOf(last.ref[1].Path, last.backups[1][i].Source))
    => last.err = "NotFound"

\* C5: every operation but GetMD, ListFolder and Download returns
\* NotSupported, whatever the reference, nil included, and in any sequence
\* of calls leaves the cache as it is and sends nothing to the catalog.
C5_ReadOnly ==
    [][last'.op \in StubOps
       => /\ last'.err = "NotSupported" /\ last'.infos = <<>>
          /\ last'.calls = <<>>
          /\ cache' = cache]_vars

\* an unsupported operation was called with a nil reference while the cache
\* held an entry
C5_Witness ==
    /\ last.op \in StubOps /\ last.ref = None
    /\ last.err = "NotSupported"
    /\ cache # <<>>

(***************************************************************************)
(* Properties of the path resolver, checked under SpecSplit.               *)
(***************************************************************************)
\* the resolver has run split on its input
Resolved == resolver.stage \in {"split", "done"}

\* C11: split matches a backup only when its source is a prefix of the path
\* segment by segment (the path is the source, or goes on with "/" after
\* it), and never returns ".." as the snapshot.
C11_SegmentPrefix ==
    (Resolved /\ resolver.out.ok)
    => /\ InsideOf(resolver.path, resolver.out.source)
       /\ resolver.out.snapshot # DotDot

\* what is left of path after the source src and a "/"
Below(path, src) == Slice(path, Len(src) + 1, Len(path))

\* what the claim expects of split for the path and the backup b: the source
\* alone, or the source, the segment after it and the rest
ExpectedOfSplit(path, b) ==
    IF path = b.Source
    THEN [source |-> b.Source, snapshot |-> <<>>, path |-> <<>>, id |-> b.ID, ok |-> TRUE]
    ELSE LET parts == SplitN(Below(path, b.Source), "/", 2) IN
         [source |-> b.Source, snapshot |-> parts[1],
          path |-> IF Len(parts) = 2 THEN parts[2] ELSE <<>>,
          id |-> b.ID, ok |-> TRUE]

\* the path is the source of the first backup that matches it, or that
\* source followed by "/" and a segment
AtOrBelowFirstMatch ==
    /\ Resolved
    /\ Matching(resolver.path, resolver.backups) # {}
    /\ LET b == resolver.backups[Lowest(Matching(resolver.path, resolver.backups))] IN
       /\ InsideOf(resolver.path, b.Source)
       /\ resolver.path # b.Source => SplitN(Below(resolver.path, b.Source), "/", 2)[1] # <<>>

\* C12 as claimed: on a path equal to a backup source split returns
\* (source, "", "", id, true); on source/seg the snapshot seg and an empty
\* path; on source/seg/rest the snapshot seg and the path rest.
C12_SplitShape ==
    AtOrBelowFirstMatch
    => resolver.out = ExpectedOfSplit(
                          resolver.path,
                          resolver.backups[Lowest(Matching(resolver.path, resolver.backups))])

\* C12, amended: the same for a path that is clean (no empty, "." or ".."
\* segment, as filepath.Clean leaves it), with respect to the first backup of
\* the list whose source matches.
C12_SplitShapeOfCleanPath ==
    (AtOrBelowFirstMatch /\ Clean(resolver.path) = resolver.path)
    => resolver.out = ExpectedOfSplit(
                          resolver.path,
                          resolver.backups[Lowest(Matching(resolver.path, resolver.backups))])

\* a clean path source/seg/rest was resolved into its three parts
C12_Witness ==
    /\ Resolved /\ resolver.out.ok
    /\ Clean(resolver.path) = resolver.path
    /\ resolver.out.snapshot # <<>> /\ resolver.out.path # <<>>
    /\ resolver.path = resolver.out.source \o <<"/">> \o resolver.out.snapshot
                       \o <<"/">> \o resolver.out.path

\* C13: for a path that is a strict ancestor, segment by segment, of the
\* source of some backup and is not at or below the source of any backup,
\* split finds nothing and isParentOfBackup returns true.
C13_AncestorIsParent ==
    (/\ resolver.stage = "done"
     /\ resolver.path # <<>>
     /\ \E i \in 1..Len(resolver.backups) :
            AncestorOf(resolver.path, resolver.backups[i].Source)
     /\ \A i \in 1..Len(resolver.backups) :
            ~InsideOf(resolver.path, resolver.backups[i].Source))
    => (~resolver.out.ok /\ resolver.parent = "true")

(***************************************************************************)
(* C14.  Download resolves the metadata through GetMD before anything      *)
(* else.  Where GetMD fails, Download returns its error; where GetMD       *)
(* finds something that is not a file, Download returns BadRequest.  In    *)
(* both cases Download has done what GetMD does and nothing more: no       *)
(* Download request went to the catalog.  Whenever it does request the     *)
(* stream, the requests of GetMD came first.                               *)
(***************************************************************************)
NoDownloadCall(calls) == \A i \in 1..Len(calls) : calls[i].fn # "Download"

IsPrefixOf(s, t) == Len(s) <= Len(t) /\ SubSeq(t, 1, Len(s)) = s

\* what Download must have done when GetMD, in its place, does md
DownloadFollows(md) ==
    /\ IsPrefixOf(md.calls, last'.calls)
    /\ md.err # "" => last'.err = md.err
    /\ (md.err = "" /\ md.infos[1].Type # "FILE") => last'.err = "BadRequest"
    /\ (md.err # "" \/ md.infos[1].Type # "FILE") =>
            /\ last'.calls = md.calls
            /\ NoDownloadCall(last'.calls)
            /\ cache' = md.cache
            /\ last'.val = <<>>

C14_DownloadAfterGetMD ==
    [][ last'.op = "Download" =>
            \E remote \in DriverRemotes :
                DownloadFollows(GetMD([cache |-> cache, calls |-> <<>>],
                                      Env(remote.cat, remote.up), last'.user, last'.ref))
      ]_vars

\* a download of the folder d of a snapshot was refused
C14_Witness ==
    /\ last.op = "Download"
    /\ last.user # None
    /\ last.ref = Some([ResourceId |-> None, Path |-> PathSnapD])
    /\ last.err = "BadRequest"
    /\ NoDownloadCall(last.calls)

(***************************************************************************)
(* C15.  ListFolder of a path equal to the source of a backup returns one  *)
(* directory entry per snapshot the catalog holds for that backup, in the  *)
(* same order, each named by the snapshot time in the configured format,   *)
(* and no two of the entries have the same path or the same resource id.   *)
(***************************************************************************)
\* the last call listed the folder of a backup source and succeeded
ListedSource ==
    /\ last.op = "ListFolder" /\ last.err = ""
    /\ last.ref # None /\ last.backups # None
    /\ split(last.ref[1].Path, last.backups[1]).ok
    /\ split(last.ref[1].Path, last.backups[1]).snapshot = <<>>
    /\ split(last.ref[1].Path, last.backups[1]).source = last.ref[1].Path

SnapshotsListed == catalog.snapshots[split(last.ref[1].Path, last.backups[1]).id]

\* one entry per snapshot of the catalog, named by its formatted time
OnePerSnapshot ==
    /\ Len(last.infos) = Len(SnapshotsListed)
    /\ \A i \in 1..Len(last.infos) :
        /\ last.infos[i].Type = "CONTAINER"
        /\ last.infos[i].Path =
              Join(<<last.ref[1].Path, FormatTime(SnapshotsListed[i].Time, conf.g)>>)

NoTwoCollide ==
    \A i, j \in 1..Len(last.infos) :
        i # j => /\ last.infos[i].Path # last.infos[j].Path
                 /\ last.infos[i].Id # last.infos[j].Id

C15_SnapshotEntries == ListedSource => (OnePerSnapshot /\ NoTwoCollide)

(***************************************************************************)
(* C16.  ListFolder of a path that split matches to no backup and that is  *)
(* a strict ancestor of the source of one or more backups returns one      *)
(* directory placeholder per distinct next segment of those sources, its   *)
(* path the requested path joined with the segment, and no path twice.     *)
(* Where no backup lies below the path it returns NotFound.                *)
(***************************************************************************)
\* the segment of src that follows its strict ancestor path
NextSegment(path, src) ==
    LET rest == Slice(src, IF path = <<"/">> THEN 1 ELSE Len(path) + 1, Len(src))
    IN  Slice(rest, 0, IndexFrom(rest, "/", 0))

\* path joined with a segment
ChildOf(path, seg) == IF path = <<"/">> THEN path \o seg ELSE path \o <<"/">> \o seg

\* the children of path on the way to the backups below it
ChildrenBelow(path, backups) ==
    {ChildOf(path, NextSegment(path, backups[i].Source)) :
        i \in {j \in 1..Len(backups) : AncestorOf(path, backups[j].Source)}}

UserOps == {"GetMD", "ListFolder", "Download"}

C17_UserRequired ==
    [][ (last'.op \in UserOps /\ last'.user = None) =>
            /\ last'.err = "UserRequired"
            /\ last'.calls = <<>>
            /\ last'.infos = <<>>
            /\ last'.val = <<>>
            /\ cache' = cache
      ]_vars

\* GetMD without a user was refused while the cache held an entry
C17_Witness ==
    /\ last.op = "GetMD"
    /\ last.user = None
    /\ last.err = "UserRequired"
    /\ cache # <<>>

(***************************************************************************)
(* C18.  Two concurrent calls of listBackups (or listSnapshots) for the    *)
(* same key, the cache empty: in every interleaving, every slice a call    *)
(* has returned and every slice in the cache has each element converted    *)
(* exactly once (the source through the storage template, the time         *)
(* truncated to the format), at the moment of the return and ever after;   *)
(* and once both calls are over, the cache holds the slice of the call     *)
(* that wrote last.  Both calls may miss and fetch.                        *)
(***************************************************************************)
\* every element of the slice at address a was converted once
ConvertedOnce(a) ==
    \A i \in 1..Len(race.heap[a]) :
        /\ race.heap[a][i].n = 1
        /\ race.heap[a][i].obj = RaceTransform(race.kind, race.heap[a][i].raw)

RaceOver == \A p \in Procs : race.proc[p].pc = "done"

C18_ConvertedExactlyOnce ==
    race.stage = "run" =>
        /\ \A p \in Procs :
              (race.proc[p].pc = "done" /\ ~race.proc[p].err) =>
                  (race.proc[p].ret # 0 /\ ConvertedOnce(race.proc[p].ret))
        /\ \A i \in 1..Len(cache) : ConvertedOnce(cache[i].value)
        /\ (RaceOver /\ race.wrote # <<>>) =>
              /\ Len(cache) = 1
              /\ cache[1].key = RaceKey(race.kind)
              /\ cache[1].value = race.proc[race.wrote[Len(race.wrote)]].obj

\* both calls missed, both fetched a slice of backups with sources to
\* convert, and the cache holds the slice of the second writer
C18_Witness ==
    /\ race.stage = "run" /\ race.kind = "backups"
    /\ conf.tplStorage = TplPrepend
    /\ RaceOver
    /\ Len(race.heap) = 2
    /\ race.wrote = <<2, 1>>
    /\ race.proc[1].ret = race.proc[1].obj /\ race.proc[2].ret = race.proc[2].obj
    /\ race.proc[1].obj # race.proc[2].obj
    /\ cache[1].value = race.proc[1].obj

(***************************************************************************)
(* C19.  Listing and lookup of snapshots agree.  After ListFolder listed   *)
(* the source of a backup, GetMD by the same user of the path of any       *)
(* entry of the listing never answers NotFound: unless the catalog cannot  *)
(* be reached, it returns one directory record whose modification time is  *)
(* that of the entry.                                                      *)
(***************************************************************************)
\* this step is GetMD, by the user of the listing, of the path of entry i
LooksUpListed(i) ==
    /\ last'.op = "GetMD"
    /\ last'.user = last.user
    /\ last'.ref = Some([ResourceId |-> None, Path |-> last.infos[i].Path])

C19_ListedSnapshotFound ==
    [][ ListedSource =>
            \A i \in 1..Len(last.infos) :
                LooksUpListed(i) =>
                    /\ last'.err \in {"", "RemoteError"}
                    /\ last'.err = "" =>
                        /\ Len(last'.infos) = 1
                        /\ last'.infos[1].Type = "CONTAINER"
                        /\ last'.infos[1].Mtime = last.infos[i].Mtime
      ]_vars

\* the snapshot of time 25, listed as /e/a/b/2 with its time truncated to
\* 20, was looked up and found
C19_Witness ==
    /\ last.op = "GetMD" /\ last.err = ""
    /\ conf.g = 10
    /\ last.ref = Some([ResourceId |-> None, Path |-> PathE \o SrcAB \o <<"/", "2">>])
    /\ last.infos[1].Type = "CONTAINER"
    /\ last.infos[1].Mtime = 20

(***************************************************************************)
(* C20.  The cache keys are injective: two wrapper calls that differ in    *)
(* the operation, the user name, the backup id, the snapshot or the path   *)
(* have different keys, also where names contain colons.  Hence what a     *)
(* call finds in the cache under its key was stored by a call with the     *)
(* same parameters, and never by a call of another user.                   *)
(***************************************************************************)
C20_KeysInjective ==
    keyer.stage = "done" =>
        /\ keyer.a # keyer.b => keyer.ka # keyer.kb
        /\ keyer.got.hit =>
            /\ keyer.got.value = keyer.b
            /\ keyer.got.value.args.username = keyer.b.args.username

(***************************************************************************)
(* C21.  With identity templates, a GetMD that succeeds on a reference     *)
(* with only a path returns a record whose Path is the requested path, in  *)
(* the stat branch, the snapshot branch, the backup-source branch and the  *)
(* ancestor branch.                                                        *)
(***************************************************************************)
\* the last call was a successful GetMD by path under identity templates
GetMDByPathDone ==
    /\ GetMDListedBackups /\ last.err = ""
    /\ last.ref[1].ResourceId = None
    /\ conf.tplStorage = TplIdentity /\ conf.tplCback = TplIdentity

C21_PathIsRequestedPath == GetMDByPathDone => last.infos[1].Path = last.ref[1].Path

(***************************************************************************)
(* C22.  The id of a record leads back to the record: after GetMD of a     *)
(* reference with only a path returned the record R, GetMD by the same     *)
(* user of the reference that carries only R.Id returns a record with the  *)
(* Path, the Type and the Id of R (unless the catalog cannot be reached).  *)
(***************************************************************************)
\* this step is GetMD, by the same user, of the id of the record the last
\* GetMD by path returned
LooksUpReturnedId ==
    /\ last.op = "GetMD" /\ last.err = ""
    /\ last.ref # None /\ last.ref[1].ResourceId = None
    /\ last'.op = "GetMD"
    /\ last'.user = last.user
    /\ last'.ref = Some([ResourceId |-> Some(last.infos[1].Id), Path |-> <<>>])

SameRecord(r1, r2) == r1.Path = r2.Path /\ r1.Type = r2.Type /\ r1.Id = r2.Id

C22_IdRoundTrip ==
    [][ LooksUpReturnedId =>
            /\ last'.err \in {"", "RemoteError"}
            /\ last'.err = "" => SameRecord(last'.infos[1], last.infos[1])
      ]_vars

(***************************************************************************)
(* C23.  Parent ids are consistent.  After ListFolder listed a folder of   *)
(* a snapshot, or the snapshot itself, GetMD by the same user of the path  *)
(* of an entry returns a record whose ParentId is the ParentId the listing *)
(* gave the entry, and is the Id GetMD returns for the folder listed.      *)
(***************************************************************************)
\* the last call listed a snapshot or a folder in it
ListedContent ==
    /\ last.op = "ListFolder" /\ last.err = ""
    /\ last.ref # None /\ last.backups # None
    /\ split(last.ref[1].Path, last.backups[1]).ok
    /\ split(last.ref[1].Path, last.backups[1]).snapshot # <<>>

\* the record GetMD returns for the folder listed, the catalog up
ParentRecord ==
    GetMD([cache |-> cache, calls |-> <<>>], Env(catalog, TRUE), last.user, last.ref).infos

C23_ParentIds ==
    [][ ListedContent =>
            \A i \in 1..Len(last.infos) :
                (LooksUpListed(i) /\ last'.err = "") =>
                    /\ last'.infos[1].ParentId = last.infos[i].ParentId
                    /\ Len(ParentRecord) = 1
                    /\ last'.infos[1].ParentId = Some(ParentRecord[1].Id)
      ]_vars

(***************************************************************************)
(* C24.  Every file path that GetMD, ListFolder or Download sends to the   *)
(* catalog in a Stat, ListFolder or Download request is the source of the  *)
(* backup of the request as the driver shows it, with the cback template   *)
(* applied once, followed by the path inside the backup.                   *)
(***************************************************************************)
FileCalls == {"Stat", "ListFolder", "Download"}

\* the sources, as the driver shows them, of the backups with this id
VirtualSources(id) ==
    {last.backups[1][i].Source :
        i \in {j \in 1..Len(last.backups[1]) : last.backups[1][j].ID = id}}

\* the path p lies at or below the source of backup id converted once
SourceConvertedOnce(p, id) ==
    \E src \in VirtualSources(id) : InsideOf(p, convertTemplate(src, conf.tplCback))

C24_CbackTemplateOnce ==
    (last.op \in UserOps /\ last.backups # None) =>
        \A i \in 1..Len(last.calls) :
            last.calls[i].fn \in FileCalls =>
                SourceConvertedOnce(last.calls[i].path, last.calls[i].id)

(***************************************************************************)
(* The ancestor logic in a deployment whose templates strip and restore    *)
(* the prefix /a/b: SpecParents follows GetMD and ListFolder there and in  *)
(* the deployments of Spec.                                                *)
(***************************************************************************)
\* the template "/a/b{{.}}"
TplPrependAB == [kind |-> "prepend", arg |-> SrcAB]

\* the template "{{ trimPrefix "/a/b" . }}"
TplTrimPrefixAB == [kind |-> "trimPrefix", arg |-> SrcAB]

ConfNested ==
    [Size |-> 1, Expiration |-> MaxExpiration, tplStorage |-> TplTrimPrefixAB,
     tplCback |-> TplPrependAB, g |-> 1]

\* the catalog of a site whose sources lie under /a/b: the backup of al is
\* /a/b/a, which the driver shows as /a
CatalogV4 ==
    [CatalogV1 EXCEPT
        !.backups = [u \in Users |->
                        IF u = Al THEN << [ID |-> 1, Source |-> SrcAB \o PathA] >> ELSE <<>>]]

ParentsSetups ==
    {[conf |-> c, cat |-> k] : c \in DriverConfs, k \in Catalogs}
    \cup {[conf |-> ConfNested, cat |-> CatalogV4]}

ParentsInit ==
    /\ codec = CodecIdle
    /\ resolver = ResolverIdle
    /\ \E setup \in ParentsSetups : conf = setup.conf /\ catalog = setup.cat
    /\ cache = <<>>
    /\ now = 0
    /\ last = LastIdle
    /\ watch = [op |-> "none", args |-> NoArgs]
    /\ hist = HistInit
    /\ race = RaceIdle
    /\ PackagesIdle
    /\ keyer = KeyerIdle

ParentsNext == CallGetMD \/ CallListFolderOfDriver

SpecParents == ParentsInit /\ [][ParentsNext]_vars

(***************************************************************************)
(* C25.  GetMD and ListFolder never read a segment past the end of the     *)
(* segments of a backup: for every reference, list of backups and pair of  *)
(* templates, neither hasPrefix nor backupSplit[len(sourceSplit)] panics.  *)
(***************************************************************************)
C25_NoIndexOutOfRange ==
    (last.op \in {"GetMD", "ListFolder"} /\ last.ref # None) => last.err # "panic"

(***************************************************************************)
(* share/sql: migrateShares.  The main goroutine starts numWorkers         *)
(* goroutines, sends every row of oc_share into a buffered channel, closes *)
(* the channel and waits on the WaitGroup.  Each worker adds itself to the *)
(* WaitGroup as its first statement, handles the shares it receives until  *)
(* the channel is closed and drained, and calls Done.                      *)
(***************************************************************************)
bufferSize == 10

numWorkers == 5

\* the rows of oc_share are numbered 1..rows, rows at most MaxRows
MaxRows == 3

Workers == 1..numWorkers

\* a goroutine that the go statement has not started yet
WorkerNone == [pc |-> "none", share |-> 0]

MigrationInit ==
    \E n \in 0..MaxRows :
        migration = [stage |-> "run", rows |-> n, main |-> "spawn", started |-> 0, sent |-> 0,
                     ch |-> <<>>, closed |-> FALSE, wg |-> 0,
                     worker |-> [w \in Workers |-> WorkerNone], handled |-> {}]

\* migrateShares: go workerShare(ctx, migrator, ch, &wg), numWorkers times
migrateSharesGo ==
    /\ migration.stage = "run" /\ migration.main = "spawn"
    /\ migration' =
        IF migration.started < numWorkers
        THEN [migration EXCEPT !.started = @ + 1,
                               !.worker[migration.started + 1] = [pc |-> "add", share |-> 0]]
        ELSE [migration EXCEPT !.main = "next"]

\* migrateShares: res.Next() and ch <- &s, which blocks while the buffer is
\* full; after the last row the loop ends
migrateSharesSend ==
    /\ migration.stage = "run" /\ migration.main = "next"
    /\ IF migration.sent < migration.rows
       THEN /\ Len(migration.ch) < bufferSize
            /\ migration' = [migration EXCEPT !.sent = @ + 1,
                                              !.ch = Append(@, migration.sent + 1)]
       ELSE migration' = [migration EXCEPT !.main = "close"]

\* migrateShares: close(ch)
migrateSharesClose ==
    /\ migration.stage = "run" /\ migration.main = "close"
    /\ migration' = [migration EXCEPT !.closed = TRUE, !.main = "wait"]

\* migrateShares: wg.Wait() returns when the counter is zero
migrateSharesWait ==
    /\ migration.stage = "run" /\ migration.main = "wait"
    /\ migration.wg = 0
    /\ migration' = [migration EXCEPT !.main = "returned"]

\* workerShare: wg.Add(1)
workerShareAdd(w) ==
    /\ migration.stage = "run" /\ migration.worker[w].pc = "add"
    /\ migration' = [migration EXCEPT !.wg = @ + 1, !.worker[w].pc = "range"]

\* workerShare: for share := range ch, which takes the next share, blocks
\* on an empty open channel and ends on an empty closed one
workerShareRange(w) ==
    /\ migration.stage = "run" /\ migration.worker[w].pc = "range"
    /\ IF migration.ch # <<>>
       THEN migration' = [migration EXCEPT !.ch = Tail(@),
                                           !.worker[w] = [pc |-> "handle",
                                                          share |-> Head(migration.ch)]]
       ELSE /\ migration.closed
            /\ migration' = [migration EXCEPT !.worker[w].pc = "done"]

\* workerShare: handleSingleShare(ctx, migrator, share) returns
workerShareHandle(w) ==
    /\ migration.stage = "run" /\ migration.worker[w].pc = "handle"
    /\ migration' = [migration EXCEPT !.handled = @ \cup {migration.worker[w].share},
                                      !.worker[w] = [pc |-> "range", share |-> 0]]

\* workerShare: wg.Done()
workerShareDone(w) ==
    /\ migration.stage = "run" /\ migration.worker[w].pc = "done"
    /\ migration' = [migration EXCEPT !.wg = @ - 1, !.worker[w].pc = "exit"]

workerShare ==
    \E w \in Workers :
        workerShareAdd(w) \/ workerShareRange(w) \/ workerShareHandle(w) \/ workerShareDone(w)

MigrateInit ==
    /\ codec = CodecIdle
    /\ resolver = ResolverIdle
    /\ CbackIdle
    /\ MigrationInit
    /\ links = PkgIdle
    /\ wrapper = PkgIdle
    /\ shares = PkgIdle

MigrateNext ==
    \/ (migrateSharesGo /\ UNCHANGED <<cbackVars, links, wrapper, shares>>)
    \/ (migrateSharesSend /\ UNCHANGED <<cbackVars, links, wrapper, shares>>)
    \/ (migrateSharesClose /\ UNCHANGED <<cbackVars, links, wrapper, shares>>)
    \/ (migrateSharesWait /\ UNCHANGED <<cbackVars, links, wrapper, shares>>)
    \/ (workerShare /\ UNCHANGED <<cbackVars, links, wrapper, shares>>)

SpecMigrate == MigrateInit /\ [][MigrateNext]_vars

(***************************************************************************)
(* C26.  When migrateShares has returned, every row read from oc_share has *)
(* been handled and no worker is still running or still to start: wg.Wait  *)
(* does not return earlier, under any interleaving of the main goroutine   *)
(* and the workers.                                                        *)
(***************************************************************************)
C26_ReturnsAfterAllHandled ==
    migration.main = "returned" =>
        /\ migration.handled = 1..migration.rows
        /\ \A w \in Workers : migration.worker[w].pc = "exit"

(***************************************************************************)
(* share/sql: the public share manager.  links.db is the table of public   *)
(* links, links.now the clock and links.last the last call.                *)
(***************************************************************************)
\* the clock of the public share manager runs from 0 to MaxLinkTime
MaxLinkTime == 3

\* the rows of the table: MaxLinks links, numbered from 1
MaxLinks == 2

NoExpiration == [Valid |-> FALSE, V |-> 0]

LinkTokens == [id \in 1..MaxLinks |-> <<"t", FormatNat(id)[1]>>]

LinkPassword == <<"1", "|", "h">>

\* the rows a link may be: link 1, of al, has a password; the others are
\* of bo
LinkRows(id) ==
    {[ID |-> id, Token |-> LinkTokens[id], Orphan |-> o, Expiration |-> e,
      Password |-> IF id = 1 THEN LinkPassword ELSE <<>>,
      UIDOwner |-> IF id = 1 THEN Al ELSE Bo] :
        o \in BOOLEAN,
        e \in {NoExpiration} \cup {[Valid |-> TRUE, V |-> v] : v \in 0..(MaxLinkTime - 1)}}

\* the tables of MaxLinks links
LinkTables ==
    {db \in [1..MaxLinks -> UNION {LinkRows(id) : id \in 1..MaxLinks}] :
        \A id \in 1..MaxLinks : db[id] \in LinkRows(id)}

\* the zero value First leaves when it finds no row

ZeroLink ==
    [ID |-> 0, Token |-> <<>>, Orphan |-> FALSE, Expiration |-> NoExpiration, Password |-> <<>>,
     UIDOwner |-> <<>>]

\* isExpired that looks at no expiration
isExpired_Never(l, t) == FALSE

\* isExpired at the time t
isExpired(l, t) == IF l.Expiration.Valid THEN t > l.Expiration.V ELSE FALSE

\* db.First under a condition: the row of the lowest id among the rows, at
\* the positions found, that meet it
First(db, found) ==
    IF found = {} THEN [RowsAffected |-> 0, link |-> ZeroLink]
    ELSE [RowsAffected |-> 1,
          link |-> db[CHOOSE i \in found : \A j \in found : db[i].ID <= db[j].ID]]

\* what getLinkByID and getLinkByToken return for the outcome res of First
getLinkOf(res, t) ==
    IF res.RowsAffected = 0 \/ res.link.Orphan \/ isExpired(res.link, t)
    THEN [err |-> "NotFound", link |-> ZeroLink]
    ELSE [err |-> "", link |-> res.link]

getLinkByID(db, id, t) ==
    getLinkOf(First(db, {i \in 1..Len(db) : db[i].ID = id}), t)

getLinkByToken(db, token, t) ==
    IF token = <<>> THEN [err |-> "error", link |-> ZeroLink]
    ELSE getLinkOf(First(db, {i \in 1..Len(db) : db[i].Token = token}), t)

\* PublicLink.AsCS3PublicShare, the fields the manager's callers are shown
AsCS3PublicShare(l) ==
    [Id |-> l.ID, Token |-> l.Token, PasswordProtected |-> l.Password # <<>>,
     Expiration |-> IF l.Expiration.Valid THEN Some(l.Expiration.V) ELSE None,
     Owner |-> l.UIDOwner]

LinkReturn(got) ==
    IF got.err # "" THEN [err |-> got.err, shares |-> <<>>]
    ELSE [err |-> "", shares |-> << AsCS3PublicShare(got.link) >>]

\* publicShareMgr.GetPublicShare; ref has a pointer Id and a Token
GetPublicShare(db, ref, t) ==
    IF ref.Id # None THEN LinkReturn(getLinkByID(db, ref.Id[1], t))
    ELSE IF ref.Token # <<>> THEN LinkReturn(getLinkByToken(db, ref.Token, t))
    ELSE [err |-> "NotFound", shares |-> <<>>]

\* isValidAuthForLink with a password: the hash of the password is compared
isValidAuthForLink(l, auth) == auth # <<>> /\ <<"1", "|">> \o auth = l.Password

\* publicShareMgr.GetPublicShareByToken
GetPublicShareByToken(db, token, auth, t) ==
    LET got == getLinkByToken(db, token, t) IN
    IF got.err # "" THEN LinkReturn(got)
    ELSE IF got.link.Password # <<>> /\ ~isValidAuthForLink(got.link, auth)
        THEN [err |-> "InvalidCredentials", shares |-> <<>>]
    ELSE LinkReturn(got)

RECURSIVE NotExpired(_, _)
\* the loop of ListPublicShares over the rows found
NotExpired(found, t) ==
    IF found = <<>> THEN <<>>
    ELSE IF ~isExpired(Head(found), t)
        THEN << AsCS3PublicShare(Head(found)) >> \o NotExpired(Tail(found), t)
    ELSE NotExpired(Tail(found), t)

\* publicShareMgr.ListPublicShares; owners are the owners of the filters of
\* type OWNER, none for no filter
ListPublicShares(db, owners, t) ==
    LET Wanted(l) == ~l.Orphan /\ (owners = {} \/ l.UIDOwner \in owners) IN
    [err |-> "", shares |-> NotExpired(SelectSeq(db, Wanted), t)]

LinkRefs ==
    {[Id |-> None, Token |-> <<>>]}
    \cup {[Id |-> Some(id), Token |-> tk] : id \in 1..(MaxLinks + 1), tk \in {<<>>, LinkTokens[2]}}
    \cup {[Id |-> None, Token |-> tk] : tk \in {LinkTokens[1], LinkTokens[2], <<"t", "x">>}}

LinkLast(op, ref, auth, owners, r) ==
    [op |-> op, ref |-> ref, auth |-> auth, owners |-> owners, at |-> links.now,
     err |-> r.err, shares |-> r.shares]

LinksInit ==
    \E db \in LinkTables :
        links = [stage |-> "run", db |-> db, now |-> 0,
                 last |-> [op |-> "none", ref |-> [Id |-> None, Token |-> <<>>], auth |-> <<>>,
                           owners |-> {}, at |-> 0, err |-> "", shares |-> <<>>]]

LinkTick ==
    /\ links.stage = "run" /\ links.now < MaxLinkTime
    /\ links' = [links EXCEPT !.now = @ + 1]

CallGetPublicShare ==
    /\ links.stage = "run"
    /\ \E ref \in LinkRefs :
        links' = [links EXCEPT !.last = LinkLast("GetPublicShare", ref, <<>>, {},
                                                 GetPublicShare(links.db, ref, links.now))]

CallGetPublicShareByToken ==
    /\ links.stage = "run"
    /\ \E ref \in {r \in LinkRefs : r.Id = None}, auth \in {<<>>, <<"h">>, <<"x">>} :
        links' = [links EXCEPT !.last = LinkLast("GetPublicShareByToken", ref, auth, {},
                                    GetPublicShareByToken(links.db, ref.Token, auth, links.now))]

CallListPublicShares ==
    /\ links.stage = "run"
    /\ \E owners \in {{}, {Al}, {Al, Bo}} :
        links' = [links EXCEPT !.last = LinkLast("ListPublicShares", [Id |-> None, Token |-> <<>>],
                                    <<>>, owners, ListPublicShares(links.db, owners, links.now))]

SpecLinksInit ==
    /\ codec = CodecIdle
    /\ resolver = ResolverIdle
    /\ CbackIdle
    /\ migration = PkgIdle
    /\ LinksInit
    /\ wrapper = PkgIdle
    /\ shares = PkgIdle

SpecLinksNext ==
    \/ (LinkTick /\ UNCHANGED <<cbackVars, migration, wrapper, shares>>)
    \/ (CallGetPublicShare /\ UNCHANGED <<cbackVars, migration, wrapper, shares>>)
    \/ (CallGetPublicShareByToken /\ UNCHANGED <<cbackVars, migration, wrapper, shares>>)
    \/ (CallListPublicShares /\ UNCHANGED <<cbackVars, migration, wrapper, shares>>)

SpecLinks == SpecLinksInit /\ [][SpecLinksNext]_vars

\* the link is orphaned, or its expiration lies before the time of the last call
Unavailable(l) == l.Orphan \/ (l.Expiration.Valid /\ l.Expiration.V < links.last.at)

\* the last call asked for the link: by its id, or by its token and no id
AskedFor(l) ==
    \/ links.last.op = "GetPublicShare" /\ links.last.ref.Id = Some(l.ID)
    \/ /\ links.last.op \in {"GetPublicShare", "GetPublicShareByToken"}
       /\ links.last.ref.Id = None /\ links.last.ref.Token = l.Token

(***************************************************************************)
(* C27.  A public link that is orphaned or whose expiration has passed at  *)
(* the time of the call is never returned: GetPublicShare (by id or by     *)
(* token) and GetPublicShareByToken answer NotFound when asked for it, and *)
(* no call, ListPublicShares included, has it among the shares returned.   *)
(***************************************************************************)
C27_UnavailableLinksHidden ==
    links.stage = "run" =>
        \A i \in 1..Len(links.db) :
            Unavailable(links.db[i]) =>
                /\ AskedFor(links.db[i]) => links.last.err = "NotFound"
                /\ \A k \in 1..Len(links.last.shares) :
                        links.last.shares[k].Id # links.db[i].ID

\* an expired link and an orphaned one were asked for or left out of a list
\* that holds the other link
C27_Witness ==
    /\ links.stage = "run"
    /\ \E i \in 1..Len(links.db) :
        /\ ~links.db[i].Orphan /\ links.db[i].Expiration.Valid
        /\ links.db[i].Expiration.V < links.last.at
        /\ \/ AskedFor(links.db[i]) /\ links.last.err = "NotFound"
           \/ /\ links.last.op = "ListPublicShares" /\ links.last.owners = {}
              /\ Len(links.last.shares) = 1

(***************************************************************************)
(* storage/eoswrapper.  wrapper.conf is the configuration of the instance  *)
(* and wrapper.last the last call: who made it, on what, what the wrapped  *)
(* filesystem was asked and what the call returned.                        *)
(***************************************************************************)
eosProjectsNamespace == <<"/", "e", "o", "s", "/", "p", "r", "o", "j", "e", "c", "t">>

eosHomesNamespace == <<"/", "e", "o", "s", "/", "u", "s", "e", "r">>

projectSpaceGroupsPrefix ==
    <<"c", "e", "r", "n", "b", "o", "x", "-", "p", "r", "o", "j", "e", "c", "t", "-">>

projectSpaceAdminsGroupSuffix == <<"-", "a", "d", "m", "i", "n", "s">>

projectSpaceWritersGroupSuffix == <<"-", "w", "r", "i", "t", "e", "r", "s">>

projectSpaceReadersGroupSuffix == <<"-", "r", "e", "a", "d", "e", "r", "s">>

requireAdmin == 2

requireWriter == 1

requireReader == 0

blockedDirectory == <<".", "b", "l", "o", "c", "k", "e", "d">>

\* wrapper.isProjectInstance
isProjectInstance(c) == HasPrefixStr(c.Namespace, eosProjectsNamespace)

\* wrapper.GetMD, as far as userIsProjectMember looks at it: the error and
\* the path of the resource; md is what the wrapped filesystem returned
wrapperGetMD(c, md) ==
    IF md.err # "" THEN [err |-> md.err, Path |-> <<>>]
    ELSE IF HasPrefixStr(md.Path, Join(<<c.Namespace, blockedDirectory>>))
        THEN [err |-> "NotFound", Path |-> <<>>]
    ELSE [err |-> "", Path |-> md.Path]

\* the loop of userIsProjectMember over the groups of the user
RECURSIVE SufficientGroup(_, _, _)
SufficientGroup(groups, project, requiredLevel) ==
    IF groups = <<>> THEN FALSE
    ELSE
        LET g == Head(groups) IN
        IF \/ (g = projectSpaceGroupsPrefix \o project \o projectSpaceAdminsGroupSuffix
                /\ requiredLevel <= requireAdmin)
           \/ (g = projectSpaceGroupsPrefix \o project \o projectSpaceWritersGroupSuffix
                /\ requiredLevel <= requireWriter)
           \/ (g = projectSpaceGroupsPrefix \o project \o projectSpaceReadersGroupSuffix
                /\ requiredLevel <= requireReader)
        THEN TRUE
        ELSE SufficientGroup(Tail(groups), project, requiredLevel)

\* userIsProjectMember where any group of the project is enough
userIsProjectMember_AnyLevel(c, md, groups, requiredLevel) ==
    IF ~isProjectInstance(c) THEN ""
    ELSE IF wrapperGetMD(c, md).err # "" THEN wrapperGetMD(c, md).err
    ELSE IF Len(SplitN(wrapperGetMD(c, md).Path, "/", 4)) \notin {3, 4} THEN ""
    ELSE IF SufficientGroup(groups, SplitN(wrapperGetMD(c, md).Path, "/", 4)[3], requireReader)
        THEN ""
    ELSE "PermissionDenied"

\* wrapper.userIsProjectMember: the error, "" for nil
userIsProjectMember(c, md, groups, requiredLevel) ==
    IF ~isProjectInstance(c) THEN ""
    ELSE IF wrapperGetMD(c, md).err # "" THEN wrapperGetMD(c, md).err
    ELSE IF Len(SplitN(wrapperGetMD(c, md).Path, "/", 4)) \notin {3, 4} THEN ""
    ELSE IF SufficientGroup(groups, SplitN(wrapperGetMD(c, md).Path, "/", 4)[3], requiredLevel)
        THEN ""
    ELSE "PermissionDenied"

\* what the wrapped filesystem is asked on the way: GetMD on a project
\* instance, then the operation if the wrapper lets it through
WrappedCalls(c, op, through) ==
    (IF isProjectInstance(c) THEN <<"GetMD">> ELSE <<>>) \o (IF through THEN <<op>> ELSE <<>>)

\* ListRevisions, DownloadRevision and RestoreRevision: the check of the
\* membership at the level required, then the wrapped operation, which
\* returns the error fserr
Revisions(c, op, requiredLevel, md, groups, fserr) ==
    IF userIsProjectMember(c, md, groups, requiredLevel) # ""
    THEN [err |-> "PermissionDenied", calls |-> WrappedCalls(c, op, FALSE)]
    ELSE [err |-> fserr, calls |-> WrappedCalls(c, op, TRUE)]

ListRevisions(c, md, groups, fserr) ==
    Revisions(c, "ListRevisions", requireReader, md, groups, fserr)

DownloadRevision(c, md, groups, fserr) ==
    Revisions(c, "DownloadRevision", requireReader, md, groups, fserr)

RestoreRevision(c, md, groups, fserr) ==
    Revisions(c, "RestoreRevision", requireWriter, md, groups, fserr)

\* wrapper.DenyGrant
DenyGrant(c, md, groups, fserr) ==
    IF isProjectInstance(c)
    THEN Revisions(c, "DenyGrant", requireAdmin, md, groups, fserr)
    ELSE [err |-> "NotSupported", calls |-> <<>>]

\* the projects c/p and c/q and their groups
ProjectP == <<"p">>

ProjectQ == <<"q">>

GroupOf(project, role) ==
    projectSpaceGroupsPrefix \o project \o
        (IF role = "admin" THEN projectSpaceAdminsGroupSuffix
         ELSE IF role = "writer" THEN projectSpaceWritersGroupSuffix
         ELSE projectSpaceReadersGroupSuffix)

\* the users: of no group, of one group of p, of the admins of q, of the
\* readers and the writers of p, and of a group that is none of a project
WrapperUsers ==
    { <<>>, <<GroupOf(ProjectP, "reader")>>, <<GroupOf(ProjectP, "writer")>>,
      <<GroupOf(ProjectP, "admin")>>, <<GroupOf(ProjectQ, "admin")>>,
      <<GroupOf(ProjectQ, "admin"), GroupOf(ProjectP, "reader")>>,
      <<GroupOf(ProjectP, "reader"), GroupOf(ProjectP, "writer")>>,
      <<projectSpaceGroupsPrefix \o ProjectP>> }

\* the resources, each with the project it lies in, if any
WrapperResources ==
    { [Path |-> <<"/">>, project |-> <<>>],
      [Path |-> <<"/", "c">>, project |-> <<>>],
      [Path |-> <<"/", "c", "/", "p">>, project |-> ProjectP],
      [Path |-> <<"/", "c", "/", "p", "/", "m">>, project |-> ProjectP],
      [Path |-> <<"/", "c", "/", "p", "/", "m", "/", "x">>, project |-> ProjectP],
      [Path |-> <<"/", "c", "/", "q", "/", "m">>, project |-> ProjectQ] }

\* what the wrapped filesystem answers: the resource or NotFound to GetMD,
\* and success or an error to the operation
WrappedOutcomes == {[md |-> m, fserr |-> e] : m \in {"", "NotFound"}, e \in {"", "fs"}}

WrapperLast(op, groups, res, r) ==
    [op |-> op, groups |-> groups, res |-> res, err |-> r.err, calls |-> r.calls]

WrapperInit ==
    \E ns \in {eosProjectsNamespace \o <<"/">>, eosHomesNamespace} :
        wrapper = [stage |-> "run", conf |-> [Namespace |-> ns],
                   last |-> [op |-> "none", groups |-> <<>>,
                             res |-> [Path |-> <<"/">>, project |-> <<>>],
                             err |-> "", calls |-> <<>>]]

CallListRevisions ==
    /\ wrapper.stage = "run"
    /\ \E groups \in WrapperUsers, res \in WrapperResources, out \in WrappedOutcomes :
        wrapper' = [wrapper EXCEPT !.last =
            WrapperLast("ListRevisions", groups, res,
                        ListRevisions(wrapper.conf, [err |-> out.md, Path |-> res.Path],
                                      groups, out.fserr))]

CallDownloadRevision ==
    /\ wrapper.stage = "run"
    /\ \E groups \in WrapperUsers, res \in WrapperResources, out \in WrappedOutcomes :
        wrapper' = [wrapper EXCEPT !.last =
            WrapperLast("DownloadRevision", groups, res,
                        DownloadRevision(wrapper.conf, [err |-> out.md, Path |-> res.Path],
                                         groups, out.fserr))]

CallRestoreRevision ==
    /\ wrapper.stage = "run"
    /\ \E groups \in WrapperUsers, res \in WrapperResources, out \in WrappedOutcomes :
        wrapper' = [wrapper EXCEPT !.last =
            WrapperLast("RestoreRevision", groups, res,
                        RestoreRevision(wrapper.conf, [err |-> out.md, Path |-> res.Path],
                                        groups, out.fserr))]

CallDenyGrant ==
    /\ wrapper.stage = "run"
    /\ \E groups \in WrapperUsers, res \in WrapperResources, out \in WrappedOutcomes :
        wrapper' = [wrapper EXCEPT !.last =
            WrapperLast("DenyGrant", groups, res,
                        DenyGrant(wrapper.conf, [err |-> out.md, Path |-> res.Path],
                                  groups, out.fserr))]

SpecWrapperInit ==
    /\ codec = CodecIdle
    /\ resolver = ResolverIdle
    /\ CbackIdle
    /\ migration = PkgIdle
    /\ links = PkgIdle
    /\ WrapperInit
    /\ shares = PkgIdle

SpecWrapperNext ==
    \/ (CallListRevisions /\ UNCHANGED <<cbackVars, migration, links, shares>>)
    \/ (CallDownloadRevision /\ UNCHANGED <<cbackVars, migration, links, shares>>)
    \/ (CallRestoreRevision /\ UNCHANGED <<cbackVars, migration, links, shares>>)
    \/ (CallDenyGrant /\ UNCHANGED <<cbackVars, migration, links, shares>>)

SpecWrapper == SpecWrapperInit /\ [][SpecWrapperNext]_vars

\* the roles of the project that let the operation through
RolesFor(op) ==
    IF op = "DenyGrant" THEN {"admin"}
    ELSE IF op = "RestoreRevision" THEN {"admin", "writer"}
    ELSE {"admin", "writer", "reader"}

\* the user of the last call holds a role of the project of the resource
\* that lets the operation through
Entitled ==
    \E i \in 1..Len(wrapper.last.groups), role \in RolesFor(wrapper.last.op) :
        wrapper.last.groups[i] = GroupOf(wrapper.last.res.project, role)

(***************************************************************************)
(* C28.  On a project instance, for a resource at or below a project root, *)
(* ListRevisions and DownloadRevision get through only for a member of the *)
(* readers, writers or admins of the project, RestoreRevision only for a   *)
(* writer or an admin and DenyGrant only for an admin; anybody else gets   *)
(* PermissionDenied and the wrapped operation is not called.  On any other *)
(* instance DenyGrant returns NotSupported.                                *)
(***************************************************************************)
C28_RevisionsByMembership ==
    (wrapper.stage = "run" /\ wrapper.last.op # "none") =>
        /\ (isProjectInstance(wrapper.conf) /\ wrapper.last.res.project # <<>> /\ ~Entitled) =>
                /\ wrapper.last.err = "PermissionDenied"
                /\ \A i \in 1..Len(wrapper.last.calls) : wrapper.last.calls[i] # wrapper.last.op
        /\ (~isProjectInstance(wrapper.conf) /\ wrapper.last.op = "DenyGrant") =>
                /\ wrapper.last.err = "NotSupported"
                /\ wrapper.last.calls = <<>>

\* a reader of the project was refused RestoreRevision of a resource of the
\* project that exists
C28_Witness ==
    /\ wrapper.stage = "run" /\ isProjectInstance(wrapper.conf)
    /\ wrapper.last.op = "RestoreRevision"
    /\ wrapper.last.groups = <<GroupOf(ProjectP, "reader")>>
    /\ wrapper.last.res.project = ProjectP
    /\ wrapper.last.err = "PermissionDenied"
    /\ wrapper.last.calls = <<"GetMD">>

(***************************************************************************)
(* share and share/sql: the share manager.  shares.db is the table of      *)
(* shares and shares.last the last call.                                   *)
(***************************************************************************)
\* the table holds at most MaxShares shares
MaxShares == 2

\* extractGrantee: the grantee of a stored share
extractGrantee(sharedWithIsGroup, g, gtype) ==
    IF sharedWithIsGroup
    THEN [Type |-> "GRANTEE_TYPE_USER", UserId |-> Some([OpaqueId |-> g, Type |-> gtype]),
          GroupId |-> None]
    ELSE [Type |-> "GRANTEE_TYPE_GROUP", UserId |-> None, GroupId |-> Some([OpaqueId |-> g])]

\* Share.AsCS3Share, the fields that identify the share and its grantee
AsCS3Share(s, granteeType) ==
    [Id |-> s.ID, ResourceId |-> [StorageId |-> s.Instance, OpaqueId |-> s.Inode],
     Grantee |-> extractGrantee(s.SharedWithIsGroup, s.ShareWith, granteeType),
     Owner |-> s.UIDOwner, Creator |-> s.UIDInitiator]

\* mgr.getUserType: what the gateway knows of the name, PRIMARY on an error
getUserType(username) ==
    IF username = Bo THEN "USER_TYPE_LIGHTWEIGHT" ELSE "USER_TYPE_PRIMARY"

\* the grantee of a grant as Share and getByKey store it
ShareWithOf(grantee) ==
    IF grantee.Type = "GRANTEE_TYPE_USER" THEN grantee.UserId[1].OpaqueId
    ELSE grantee.GroupId[1].OpaqueId

\* mgr.getByKey: the positions of the rows of the key
getByKey(db, key, uid, checkOwner) ==
    {i \in 1..Len(db) :
        /\ ~db[i].Orphan
        /\ db[i].UIDOwner = key.Owner
        /\ db[i].Instance = key.ResourceId.StorageId /\ db[i].Inode = key.ResourceId.OpaqueId
        /\ db[i].SharedWithIsGroup = (key.Grantee.Type = "GRANTEE_TYPE_GROUP")
        /\ db[i].ShareWith = ShareWithOf(key.Grantee)
        /\ (checkOwner /\ key.Owner # uid) => db[i].UIDInitiator = uid}

\* mgr.Share by the user uid on the resource md with the grant g: the error,
\* the share returned and the table
Share(db, uid, md, g) ==
    IF g.Grantee.Type = "GRANTEE_TYPE_USER"
       /\ (g.Grantee.UserId[1].OpaqueId = uid \/ g.Grantee.UserId[1].OpaqueId = md.Owner)
    THEN [err |-> "error", share |-> None, db |-> db]
    ELSE IF getByKey(db, [Owner |-> md.Owner, ResourceId |-> md.Id, Grantee |-> g.Grantee],
                     uid, TRUE) # {}
        THEN [err |-> "AlreadyExists", share |-> None, db |-> db]
    ELSE IF g.Grantee.Type \notin {"GRANTEE_TYPE_USER", "GRANTEE_TYPE_GROUP"}
        THEN [err |-> "error", share |-> None, db |-> db]
    ELSE
        LET share == [ID |-> Len(db) + 1, ShareWith |-> ShareWithOf(g.Grantee),
                      SharedWithIsGroup |-> g.Grantee.Type = "GRANTEE_TYPE_GROUP",
                      UIDOwner |-> md.Owner, UIDInitiator |-> uid,
                      Inode |-> md.Id.OpaqueId, Instance |-> md.Id.StorageId,
                      Orphan |-> FALSE]
        IN  [err |-> "", share |-> Some(AsCS3Share(share, getUserType(share.ShareWith))),
             db |-> Append(db, share)]

\* mgr.getByID: the positions of the rows of the id that are no orphans
getByID(db, id) == {i \in 1..Len(db) : db[i].ID = id /\ ~db[i].Orphan}

\* mgr.GetShare of a reference by id, by the user uid; a user who is neither
\* the owner and creator nor an admin of the project is told NotFound
GetShare(db, uid, id, isProjectAdmin) ==
    IF getByID(db, id) = {} THEN [err |-> "NotFound", share |-> None, db |-> db]
    ELSE
        LET s == db[CHOOSE i \in getByID(db, id) : TRUE] IN
        IF (s.UIDOwner = uid /\ s.UIDInitiator = uid) \/ isProjectAdmin
        THEN [err |-> "", share |-> Some(AsCS3Share(s, getUserType(s.ShareWith))), db |-> db]
        ELSE [err |-> "NotFound", share |-> None, db |-> db]

GroupG == <<"g">>

\* the grantees of the grants: the users, a group, and a grantee of no type
ShareGrantees ==
    {[Type |-> "GRANTEE_TYPE_USER", UserId |-> Some([OpaqueId |-> u]), GroupId |-> None] :
        u \in Users}
    \cup {[Type |-> "GRANTEE_TYPE_GROUP", UserId |-> None, GroupId |-> Some([OpaqueId |-> n])] :
            n \in {GroupG, Bo}}
    \cup {[Type |-> "GRANTEE_TYPE_INVALID", UserId |-> None, GroupId |-> Some([OpaqueId |-> GroupG])]}

\* two resources of al
ShareResources ==
    {[Owner |-> Al, Id |-> [StorageId |-> "eos", OpaqueId |-> n]] : n \in {<<"1">>, <<"2">>}}

SharesIdle ==
    [op |-> "none", uid |-> <<>>, grantee |-> None, id |-> 0, err |-> "", share |-> None]

SharesInit == shares = [stage |-> "run", db |-> <<>>, last |-> SharesIdle]

CallShare ==
    /\ shares.stage = "run" /\ Len(shares.db) < MaxShares
    /\ \E uid \in Users, md \in ShareResources, grantee \in ShareGrantees :
        LET r == Share(shares.db, uid, md, [Grantee |-> grantee]) IN
        shares' = [shares EXCEPT !.db = r.db,
                                 !.last = [op |-> "Share", uid |-> uid, grantee |-> Some(grantee),
                                           id |-> 0, err |-> r.err, share |-> r.share]]

CallGetShare ==
    /\ shares.stage = "run"
    /\ \E uid \in Users, id \in 1..(MaxShares + 1), admin \in BOOLEAN :
        LET r == GetShare(shares.db, uid, id, admin) IN
        shares' = [shares EXCEPT !.last = [op |-> "GetShare", uid |-> uid, grantee |-> None,
                                           id |-> id, err |-> r.err, share |-> r.share]]

SpecSharesInit ==
    /\ codec = CodecIdle
    /\ resolver = ResolverIdle
    /\ CbackIdle
    /\ migration = PkgIdle
    /\ links = PkgIdle
    /\ wrapper = PkgIdle
    /\ SharesInit

SpecSharesNext ==
    \/ (CallShare /\ UNCHANGED <<cbackVars, migration, links, wrapper>>)
    \/ (CallGetShare /\ UNCHANGED <<cbackVars, migration, links, wrapper>>)

SpecShares == SpecSharesInit /\ [][SpecSharesNext]_vars

\* the grantee g is the group named, or the user named with the type the
\* gateway gives
GranteeIs(g, isGroup, name) ==
    IF isGroup
    THEN g.Type = "GRANTEE_TYPE_GROUP" /\ g.GroupId = Some([OpaqueId |-> name])
    ELSE /\ g.Type = "GRANTEE_TYPE_USER"
         /\ g.UserId = Some([OpaqueId |-> name, Type |-> getUserType(name)])

(***************************************************************************)
(* C29.  A share returned by Share or GetShare has a grantee of type GROUP *)
(* with the id of the group when the stored share is for a group, and of   *)
(* type USER with the id and the type of the user when it is for a user:   *)
(* a share created for a group is read back with a group grantee, and one  *)
(* created for a user with a user grantee.                                 *)
(***************************************************************************)
C29_GranteeReadBack ==
    (shares.stage = "run" /\ shares.last.err = "" /\ shares.last.share # None) =>
        \A i \in 1..Len(shares.db) :
            shares.db[i].ID = shares.last.share[1].Id =>
                GranteeIs(shares.last.share[1].Grantee, shares.db[i].SharedWithIsGroup,
                          shares.db[i].ShareWith)
====
